---------------------------- MODULE Spec2Model ----------------------------
(***************************************************************************)
(* Model of the retrieval / answering core of the AI document reader:      *)
(*   - DirectOllamaEmbeddings   (services/customEmbeddings.js)             *)
(*   - EmbeddingService         (services/embeddingService.js)             *)
(*   - PostgresVectorStore      (src/unnamed/part_003)                     *)
(*   - QAService                (src/unnamed/part_002)                     *)
(*   - documentController       (src/unnamed/part_004)                     *)
(*                                                                         *)
(*   - pgPool                   (config/dbConnect.js)                      *)
(*                                                                         *)
(* The specifications of the module:                                       *)
(*   SpecEmbed    : one embedQuery or embedDocuments call, stepped through *)
(*                  the strategy cascade                                   *)
(*   Spec         : the registry, the chunk store and concurrent requests  *)
(*   SpecRank     : findRelevantChunks on a table whose rows come back in  *)
(*                  any order                                              *)
(*   SpecFlag     : uploads and ingestions, two of them at once            *)
(*   SpecDelete   : questions asked while documents are deleted            *)
(*   SpecPool     : the connection pool and the callers of connect()       *)
(*   SpecPoolLive : the pool with the fairness of its timers               *)
(*                                                                         *)
(* Text is a sequence of one-character strings, so that lower-casing,      *)
(* splitting, substring tests and the regular expressions of the source    *)
(* are computed and not assumed.  Numbers of an embedding returned by a    *)
(* backend are integers (fixed point); a unit vector produced by the       *)
(* hashing fallback is encoded by the primitive integer vector of its ray. *)
(***************************************************************************)
EXTENDS Integers, Sequences, FiniteSets, TLC

VARIABLES
    e_call,     \* the method of DirectOllamaEmbeddings that was called
    e_texts,    \* the argument of embedDocuments (text ids)
    e_k,        \* position of its for-of loop in e_texts
    e_pc,       \* position of the call
    e_text,     \* the text being embedded (a text id, or "undefined")
    e_idx,      \* index of the strategy tried next (1..4)
    e_log,      \* every strategy invoked for the text so far and its
                \* outcome, in order
    e_emb,      \* value returned by _generateEmbedding
    e_ret,      \* value returned by embedQuery
    e_out,      \* the array "embeddings" of embedDocuments
    docs,       \* document registry (MongoDB collection Document)
    table,      \* state of the PostgreSQL table "documents"
    rows,       \* rows of the table, in insertion order
    tasks,      \* in-flight requests and their local variables
    env,        \* EMBEDDING_MODEL, OPENAI_EMBEDDING_MODEL, and the
                \* processDocument requests served
    pool        \* pgPool: clients checked out, requests waiting, requests
                \* that timed out

evars == <<e_call, e_texts, e_k, e_pc, e_text, e_idx, e_log, e_emb, e_ret, e_out>>
pvars == <<docs, table, rows, tasks, env>>
vars  == <<e_call, e_texts, e_k, e_pc, e_text, e_idx, e_log, e_emb, e_ret, e_out,
           docs, table, rows, tasks, env, pool>>

-----------------------------------------------------------------------------
(* Bounds of the model *)

\* target dimensionality of the provider (the source default is 1536)
D == 2

-----------------------------------------------------------------------------
(* Characters and strings *)

LowerLetters == <<"a","b","c","d","e","f","g","h","i","j","k","l","m","n","o","p","q","r","s","t","u","v","w","x","y","z">>
UpperLetters == <<"A","B","C","D","E","F","G","H","I","J","K","L","M","N","O","P","Q","R","S","T","U","V","W","X","Y","Z">>
Digits == <<"0","1","2","3","4","5","6","7","8","9">>

Range(s) == {s[i] : i \in DOMAIN s}

IndexIn(c, s) == CHOOSE i \in DOMAIN s : s[i] = c

IsLower(c) == c \in Range(LowerLetters)
IsUpper(c) == c \in Range(UpperLetters)
IsDigit(c) == c \in Range(Digits)
\* \s of a JavaScript regular expression, over the characters of the model
IsSpace(c) == c \in {" ", "\t", "\n"}
\* \w of a JavaScript regular expression
IsWordChar(c) == IsLower(c) \/ IsUpper(c) \/ IsDigit(c) \/ c = "_"

\* String.prototype.charCodeAt for the characters a cleaned word can hold
charCodeAt(c) ==
    IF IsLower(c) THEN 96 + IndexIn(c, LowerLetters)
    ELSE IF IsUpper(c) THEN 64 + IndexIn(c, UpperLetters)
    ELSE IF IsDigit(c) THEN 47 + IndexIn(c, Digits)
    ELSE IF c = "_" THEN 95
    ELSE 32

toLowerChar(c) == IF IsUpper(c) THEN LowerLetters[IndexIn(c, UpperLetters)] ELSE c

\* String.prototype.toLowerCase
toLowerCase(s) == [i \in DOMAIN s |-> toLowerChar(s[i])]

\* does sub occur in s at position i (1-based)
OccursAt(s, sub, i) ==
    /\ i >= 1
    /\ i + Len(sub) - 1 <= Len(s)
    /\ \A j \in 1..Len(sub) : s[i + j - 1] = sub[j]

\* String.prototype.includes
includes(s, sub) == \E i \in 1..(Len(s) + 1) : OccursAt(s, sub, i)

RECURSIVE TrimLeft(_)
TrimLeft(s) == IF s # <<>> /\ IsSpace(Head(s)) THEN TrimLeft(Tail(s)) ELSE s

RECURSIVE TrimRight(_)
TrimRight(s) ==
    IF s # <<>> /\ IsSpace(s[Len(s)]) THEN TrimRight(SubSeq(s, 1, Len(s) - 1)) ELSE s

\* String.prototype.trim
trim(s) == TrimRight(TrimLeft(s))

\* String.prototype.split(sep) for a non-empty separator predicate matching
\* maximal runs (split(/\s+/), split(/[.!?]+/)): the pieces between the runs,
\* empty pieces at the ends included
SplitRuns(str, IsSep(_)) ==
    LET RECURSIVE Skip(_)
        Skip(r) == IF r # <<>> /\ IsSep(Head(r)) THEN Skip(Tail(r)) ELSE r
        RECURSIVE Go(_, _)
        Go(s, cur) ==
            IF s = <<>> THEN <<cur>>
            ELSE IF IsSep(Head(s)) THEN <<cur>> \o Go(Skip(s), <<>>)
                 ELSE Go(Tail(s), Append(cur, Head(s)))
    IN  Go(str, <<>>)

\* Array.prototype.filter
filter(seq, Keep(_)) ==
    LET RECURSIVE Go(_)
        Go(s) ==
            IF s = <<>> THEN <<>>
            ELSE IF Keep(Head(s)) THEN <<Head(s)>> \o Go(Tail(s))
                 ELSE Go(Tail(s))
    IN  Go(seq)

\* Array.prototype.slice(0, n) for n >= 0
slice(seq, n) == SubSeq(seq, 1, IF n < Len(seq) THEN n ELSE Len(seq))

\* Array.prototype.join of strings
RECURSIVE join(_, _)
join(seq, sep) ==
    IF seq = <<>> THEN <<>>
    ELSE IF Len(seq) = 1 THEN seq[1]
    ELSE seq[1] \o sep \o join(Tail(seq), sep)

\* [...new Set(seq)]: first occurrences, in order
RECURSIVE unique(_)
unique(seq) ==
    IF seq = <<>> THEN <<>>
    ELSE LET r == unique(SubSeq(seq, 1, Len(seq) - 1))
             x == seq[Len(seq)]
         IN  IF x \in Range(r) THEN r ELSE Append(r, x)

RECURSIVE SumSeq(_)
SumSeq(s) == IF s = <<>> THEN 0 ELSE Head(s) + SumSeq(Tail(s))

Abs(x) == IF x < 0 THEN -x ELSE x

\* |x| mod m, the value of Math.abs(x % m)
AbsMod(x, m) == IF x >= 0 THEN x % m ELSE (m - (x % m)) % m

-----------------------------------------------------------------------------
(* Texts of the model *)

Q_who    == <<"w","h","o"," ","w","r","o","t","e"," ","t","h","i","s">>
Q_what   == <<"w","h","a","t"," ","i","s"," ","t","h","e"," ","t","o","t","a","l">>
Q_paren  == <<"s","u","m"," ","(","t","o","t","a","l">>
Q_short  == <<"i","s"," ","i","t">>
C_inv    == <<"I","n","v","o","i","c","e"," ","t","o","t","a","l"," ","$","5","0","0",".",
              " ","A","l","i","c","e"," ","S","m","i","t","h"," ","w","r","o","t","e"," ",
              "t","h","e"," ","t","o","t","a","l",".">>
C_ship   == <<"s","h","i","p","p","i","n","g"," ","a","d","d","r","e","s","s">>
C_memo   == <<"B","o","b"," ","J","o","n","e","s"," ","o","w","n","s"," ","t","h","e"," ",
              "w","h","o","l","e"," ","s","h","i","p","p","i","n","g"," ","b","u","d","g",
              "e","t"," ","o","f"," ","2","0","2","0",".">>

Questions == {"Q_who", "Q_what", "Q_paren", "Q_short"}
Contents  == {"C_inv", "C_ship", "C_memo"}

\* the string a text id stands for
TextOf(id) ==
    CASE id = "Q_who"   -> Q_who
      [] id = "Q_what"  -> Q_what
      [] id = "Q_paren" -> Q_paren
      [] id = "Q_short" -> Q_short
      [] id = "C_inv"   -> C_inv
      [] id = "C_ship"  -> C_ship
      [] id = "C_memo"  -> C_memo
      [] id = "empty"   -> <<>>

\* typeof text === "string"
IsString(id) == id # "undefined"

-----------------------------------------------------------------------------
(* DirectOllamaEmbeddings (customEmbeddings.js) *)

\* first index of the output vector that receives the length bias, and the
\* distance to the next one
BiasStride == 200
\* number of derived positions every word is scattered to
HashPositions == 16
\* number of most frequent words kept
TopWords == 100

\* one round of _simpleHash: hash = ((hash << 5) - hash) + charCode; hash |= 0.
\* The 32-bit wrap-around is computed on 16-bit halves, hash = hi * 65536 + lo.
hashRound(hash, code) ==
    LET lo  == hash % 65536
        hi  == (hash - lo) \div 65536
        t   == 31 * lo + code
        lo2 == t % 65536
        hi2 == (((31 * hi + (t \div 65536)) + 32768) % 65536) - 32768
    IN  hi2 * 65536 + lo2

\* _simpleHash(str)
RECURSIVE simpleHashFrom(_, _)
simpleHashFrom(str, hash) ==
    IF str = <<>> THEN hash
    ELSE simpleHashFrom(Tail(str), hashRound(hash, charCodeAt(Head(str))))

simpleHash(str) == simpleHashFrom(str, 0)

\* text.toLowerCase().replace(/[^\w\s]/g,' ').replace(/\s+/g,' ').trim()
cleanText(text) ==
    LET lower    == toLowerCase(text)
        nopunct  == [i \in DOMAIN lower |->
                        IF IsWordChar(lower[i]) \/ IsSpace(lower[i]) THEN lower[i] ELSE " "]
    IN  join(filter(SplitRuns(nopunct, IsSpace), LAMBDA w : w # <<>>), <<" ">>)

\* cleanedText.split(' '): "" splits into one empty word
splitWords(cleaned) == SplitRuns(cleaned, LAMBDA c : c = " ")

\* number of occurrences of w in words
CountOf(w, words) == Cardinality({i \in DOMAIN words : words[i] = w})

\* keys of wordFreq in insertion order: the distinct words longer than 2
freqKeys(words) == unique(filter(words, LAMBDA w : Len(w) > 2))

\* stable sort of the keys by descending frequency
RECURSIVE sortByFreq(_, _)
sortByFreq(keys, words) ==
    IF keys = <<>> THEN <<>>
    ELSE LET best == CHOOSE i \in DOMAIN keys :
                        /\ \A j \in DOMAIN keys : CountOf(keys[j], words) <= CountOf(keys[i], words)
                        /\ \A j \in 1..(i - 1) : CountOf(keys[j], words) < CountOf(keys[i], words)
             rest == [j \in 1..(Len(keys) - 1) |-> IF j < best THEN keys[j] ELSE keys[j + 1]]
         IN  <<keys[best]>> \o sortByFreq(rest, words)

ZeroVector(n) == [i \in 1..n |-> 0]

AllZero(v) == \A i \in DOMAIN v : v[i] = 0

\* greatest common divisor of the absolute values
RECURSIVE Gcd(_, _)
Gcd(a, b) == IF b = 0 THEN Abs(a) ELSE Gcd(b, Abs(a) % Abs(b))

RECURSIVE GcdSeq(_)
GcdSeq(v) == IF v = <<>> THEN 0 ELSE Gcd(Head(v), GcdSeq(Tail(v)))

\* vector.map(val => val / magnitude) with magnitude = sqrt(sum of squares) || 1.
\* A zero vector is divided by 1; any other vector becomes the unit vector of
\* its ray, which is encoded by the primitive integer vector of that ray.
normalize(v) ==
    IF AllZero(v) THEN v
    ELSE LET g == GcdSeq(v) IN [i \in DOMAIN v |-> v[i] \div g]

\* _generatePseudoEmbedding(text) with this.dimensions = dim.  Before the
\* normalisation the entries are kept in units of 1 / (10000 * words.length):
\* a word adds (freq / words.length) * (1 - 0.01 * wordIndex), the bias adds
\* text.length / 10000.
generatePseudoEmbedding(text, dim) ==
    LET words    == splitWords(cleanText(text))
        n        == Len(words)
        topWords == slice(sortByFreq(freqKeys(words), words), TopWords)
        value(k) == CountOf(topWords[k], words) * (100 - (k - 1)) * 100
        position(k, i) == (AbsMod(simpleHash(topWords[k]), dim) * (i + 1)) % dim
        hits(p)  == {<<k, i>> \in (DOMAIN topWords) \X (0..(HashPositions - 1)) : position(k, i) = p}
        RECURSIVE SumHits(_)
        SumHits(S) == IF S = {} THEN 0
                      ELSE LET h == CHOOSE x \in S : TRUE
                           IN  value(h[1]) + SumHits(S \ {h})
        bias(p)  == IF p % BiasStride = 0 THEN Len(text) * n ELSE 0
    IN  normalize([p1 \in 1..dim |-> SumHits(hits(p1 - 1)) + bias(p1 - 1)])

\* a resize that cuts long embeddings and leaves short ones as they are
\* (no repetition), to measure what EmbedQueryHasDimension owes to lines 88-94
resizeWithoutRepeat(embedding, targetDim) ==
    IF Len(embedding) > targetDim THEN SubSeq(embedding, 1, targetDim) ELSE embedding

\* a resize that cuts every longer embedding to its first elements, to measure
\* what ResizeGivesDimension owes to the averages of lines 71-83
resizeAlwaysCut(embedding, targetDim) ==
    IF Len(embedding) >= targetDim THEN SubSeq(embedding, 1, targetDim)
    ELSE [i \in 1..targetDim |-> embedding[((i - 1) % Len(embedding)) + 1]]

\* _resizeEmbedding(embedding, targetDim)
resizeEmbedding(embedding, targetDim) ==
    LET originalDim == Len(embedding) IN
    IF originalDim = targetDim THEN embedding
    ELSE IF originalDim > targetDim
    THEN IF originalDim % targetDim = 0
         THEN LET groupSize == originalDim \div targetDim
              IN  [i \in 1..targetDim |->
                     SumSeq(SubSeq(embedding, (i - 1) * groupSize + 1, i * groupSize)) \div groupSize]
         ELSE SubSeq(embedding, 1, targetDim)
    ELSE LET repeats  == (targetDim + originalDim - 1) \div originalDim
             repeated == [i \in 1..(repeats * originalDim) |-> embedding[((i - 1) % originalDim) + 1]]
         IN  SubSeq(repeated, 1, targetDim)


\* numbers a backend may return: multiples of 2, so that the average of a
\* group of two (the only group size for vectors up to D + D long) is exact
Values == {-2, 0, 2}
MaxRawLen == D + D
\* the arrays a backend may answer with, the empty array included
RawVectors == UNION {[1..n -> Values] : n \in 0..MaxRawLen}

\* what the HTTP call of a strategy comes back with: a network error or
\* timeout, a body without the expected field or array, or an array
Responses ==
    [kind : {"error", "missing"}, v : {<<>>}] \cup [kind : {"vector"}, v : RawVectors]

Threw == [threw |-> TRUE, value |-> <<>>]
Returned(v) == [threw |-> FALSE, value |-> v]

\* _tryEmbeddingsEndpoint: returns response.data.embedding when it is truthy
\* (an empty array is truthy), throws otherwise
tryEmbeddingsEndpoint(resp) == IF resp.kind = "vector" THEN Returned(resp.v) ELSE Threw

\* _tryEmbedEndpoint: as above, on /api/embed
tryEmbedEndpoint(resp) == IF resp.kind = "vector" THEN Returned(resp.v) ELSE Threw

\* _tryChatCompletionEmbedding: returns the parsed array only when it is
\* non-empty, throws otherwise
tryChatCompletionEmbedding(resp) ==
    IF resp.kind = "vector" /\ Len(resp.v) > 0 THEN Returned(resp.v) ELSE Threw

\* _tryCompletionEmbedding: as above, on /api/generate
tryCompletionEmbedding(resp) ==
    IF resp.kind = "vector" /\ Len(resp.v) > 0 THEN Returned(resp.v) ELSE Threw

NumMethods == 4

\* the array with the strategies in another order, to measure what
\* StrategiesInOrder owes to the order of the array
methodsSwapped ==
    <<"_tryEmbedEndpoint", "_tryEmbeddingsEndpoint",
      "_tryChatCompletionEmbedding", "_tryCompletionEmbedding">>

\* const methods = [ ... ]
methods ==
    <<"_tryEmbeddingsEndpoint", "_tryEmbedEndpoint",
      "_tryChatCompletionEmbedding", "_tryCompletionEmbedding">>

\* methods[i - 1](text)
method(i, resp) ==
    CASE methods[i] = "_tryEmbeddingsEndpoint" -> tryEmbeddingsEndpoint(resp)
      [] methods[i] = "_tryEmbedEndpoint" -> tryEmbedEndpoint(resp)
      [] methods[i] = "_tryChatCompletionEmbedding" -> tryChatCompletionEmbedding(resp)
      [] methods[i] = "_tryCompletionEmbedding" -> tryCompletionEmbedding(resp)

\* "if (embedding && embedding.length > 0) return embedding"
methodWins(r) == ~r.threw /\ Len(r.value) > 0

\* how a strategy's outcome is logged
outcomeKind(r) == IF r.threw THEN "threw" ELSE IF Len(r.value) > 0 THEN "ok" ELSE "empty"

\* the hashing fallback throws a TypeError on text.toLowerCase() when text is
\* no string, and returns a vector otherwise
pseudoEmbedding(textId) ==
    IF IsString(textId) THEN Returned(generatePseudoEmbedding(TextOf(textId), D)) ELSE Threw

\* _generateEmbedding(text) as one step, resps[i] being the response to the
\* i-th strategy's call
generateEmbedding(textId, resps) ==
    LET RECURSIVE Loop(_)
        Loop(i) ==
            IF i > NumMethods THEN pseudoEmbedding(textId)
            ELSE LET r == method(i, resps[i])
                 IN  IF methodWins(r) THEN r ELSE Loop(i + 1)
    IN  Loop(1)

\* embedQuery(text) as one step
embedQuery(textId, resps) ==
    LET g == generateEmbedding(textId, resps)
    IN  IF g.threw THEN ZeroVector(D) ELSE resizeEmbedding(g.value, D)

(* embedQuery and embedDocuments, one strategy call per step *)

EmbedTexts == {"Q_who", "C_ship", "empty", "undefined"}

\* arguments of embedDocuments
DocTexts == {<<>>, <<"undefined">>, <<"C_ship", "undefined">>}

\* the entry of the log for an invocation of a strategy
invoked(name, r) == [method |-> name, outcome |-> outcomeKind(r)]

\* an exception of _generateEmbedding that leaves embedQuery or
\* embedDocuments, to measure what ProviderNeverRaises owes to their catch
generateThrewUncaught(call) == [raised |-> TRUE, value |-> <<>>]

\* a catch that returns a vector that is not the null vector, to measure what
\* AllFailedGivesZeros owes to the zeros of the catch
generateThrewNonZero(call) == [raised |-> FALSE, value |-> [i \in 1..D |-> 2]]

\* the catch of embedQuery (52-55) and of the loop body of embedDocuments
\* (34-38): a vector of zeros stands for the text
generateThrew(call) == [raised |-> FALSE, value |-> ZeroVector(D)]

\* the vector for the text is returned (embedQuery) or pushed
\* (embedDocuments)
deliver(v) ==
    IF e_call = "embedQuery"
    THEN /\ e_ret' = v
         /\ e_pc' = "done"
         /\ UNCHANGED <<e_out, e_k>>
    ELSE /\ e_out' = Append(e_out, v)
         /\ e_pc' = "loop"
         /\ e_k' = e_k + 1
         /\ e_ret' = e_ret

\* "for (const text of texts)" and "return embeddings"
NextText ==
    /\ e_pc = "loop"
    /\ IF e_k > Len(e_texts)
       THEN /\ e_pc' = "returned"
            /\ UNCHANGED <<e_text, e_idx, e_log, e_emb>>
       ELSE /\ e_pc' = "generate"
            /\ e_text' = e_texts[e_k]
            /\ e_idx' = 1
            /\ e_log' = <<>>
            /\ e_emb' = <<>>
    /\ UNCHANGED <<e_call, e_texts, e_k, e_ret, e_out>>
    /\ UNCHANGED <<pvars, pool>>

\* one iteration of the loop of _generateEmbedding
TryMethod ==
    /\ e_pc = "generate"
    /\ e_idx <= NumMethods
    /\ \E resp \in Responses :
         LET r == method(e_idx, resp) IN
         /\ e_log' = Append(e_log, invoked(methods[e_idx], r))
         /\ IF methodWins(r)
            THEN /\ e_emb' = r.value
                 /\ e_pc' = "resize"
                 /\ e_idx' = e_idx
            ELSE /\ e_emb' = e_emb
                 /\ e_pc' = IF e_idx = NumMethods THEN "fallback" ELSE "generate"
                 /\ e_idx' = e_idx + 1
    /\ UNCHANGED <<e_call, e_texts, e_k, e_text, e_ret, e_out>>
    /\ UNCHANGED <<pvars, pool>>

\* "return this._generatePseudoEmbedding(text)", and the catch of the caller
\* when it throws
PseudoFallback ==
    /\ e_pc = "fallback"
    /\ LET r == pseudoEmbedding(e_text) IN
       /\ e_log' = Append(e_log, invoked("_generatePseudoEmbedding", r))
       /\ IF r.threw
          THEN /\ e_emb' = e_emb
               /\ LET c == generateThrew(e_call) IN
                  IF c.raised
                  THEN /\ e_pc' = "raised"
                       /\ UNCHANGED <<e_ret, e_out, e_k>>
                  ELSE deliver(c.value)
          ELSE /\ e_emb' = r.value
               /\ e_pc' = "resize"
               /\ UNCHANGED <<e_ret, e_out, e_k>>
    /\ UNCHANGED <<e_call, e_texts, e_text, e_idx>>
    /\ UNCHANGED <<pvars, pool>>

\* "return this._resizeEmbedding(embedding, this.dimensions)", or the push of
\* the resized vector
ResizeReturn ==
    /\ e_pc = "resize"
    /\ deliver(resizeEmbedding(e_emb, D))
    /\ UNCHANGED <<e_call, e_texts, e_text, e_idx, e_log, e_emb>>
    /\ UNCHANGED <<pvars, pool>>

EmbedNext == NextText \/ TryMethod \/ PseudoFallback \/ ResizeReturn

-----------------------------------------------------------------------------
(* Registry, chunk store and requests: data *)

\* cap on the rows of the table
MaxRows == 3
\* largest topK a request asks for (the validator admits 1..20)
MaxTopK == 2
\* clients of the connection pool (the source configures max: 20)
PoolMax == 2

\* concurrent requests: one that ingests, one that asks
IngestTasks == {"t2"}
QueryTasks  == {"t1"}
Tasks  == IngestTasks \cup QueryTasks
DocIds == {"d1", "d2"}

\* documentId.toString(): ids are hexadecimal strings of one length
idStr(d) == IF d = "d1" THEN <<"a","1">> ELSE <<"b","2">>

\* files a user may upload: the original name and the chunks the text
\* splitter cuts the extracted text into
Uploads == {"notes", "named", "blank"}
\* the files uploaded under each document id
UploadsOf(d) == IF d = "d1" THEN {"notes", "blank"} ELSE {"named"}

originalName(u) ==
    CASE u = "notes" -> <<"n","o","t","e","s",".","t","x","t">>
      [] u = "named" -> <<"a","1",".","t","x","t">>
      [] u = "blank" -> <<"e","m","p","t","y",".","t","x","t">>

splitText(u) ==
    CASE u = "notes" -> <<"C_inv", "C_ship">>
      [] u = "named" -> <<"C_memo">>
      [] u = "blank" -> <<>>

\* processDocument requests served in a run
MaxIngests == 2

NoDoc == [exists |-> FALSE, upload |-> "blank", vectorized |-> FALSE, writes |-> 0,
     isDeleted |-> FALSE]

\* new Document({...}): vectorized defaults to false
NewDoc(u) == [exists |-> TRUE, upload |-> u, vectorized |-> FALSE, writes |-> 0,
     isDeleted |-> FALSE]

\* the metadata object createEmbeddings attaches to every chunk
chunkMetadata(d, u) == [documentId |-> d, source |-> u, document_id |-> d, id |-> d]

\* an embedding as the store sees it: its length and whether it is all zero
AbsVec(v) == [len |-> Len(v), zero |-> AllZero(v)]

\* metadata::text of a jsonb value (keys ordered by length, then bytewise)
metadataText(meta) ==
    LET q == <<"\"">>
        pair(k, v) == q \o k \o q \o <<":"," ">> \o q \o v \o q
    IN  <<"{">>
        \o pair(<<"i","d">>, idStr(meta.id)) \o <<","," ">>
        \o pair(<<"s","o","u","r","c","e">>, originalName(meta.source)) \o <<","," ">>
        \o pair(<<"d","o","c","u","m","e","n","t","I","d">>, idStr(meta.documentId)) \o <<","," ">>
        \o pair(<<"d","o","c","u","m","e","n","t","_","i","d">>, idStr(meta.document_id))
        \o <<"}">>

-----------------------------------------------------------------------------
(* Term-frequency scoring (embeddingService.js 162-197, part_002 70-96) *)

\* query.toLowerCase().split(/\s+/).filter(term => term.length > 2)
queryTerms(question) ==
    filter(SplitRuns(toLowerCase(question), IsSpace), LAMBDA term : Len(term) > 2)

\* new RegExp(term, 'g') throws a SyntaxError on an unterminated group.  The
\* terms of the model are made of letters, digits and "(".
regExpThrows(term) ==
    \E i \in DOMAIN term :
        /\ term[i] = "("
        /\ ~\E j \in (i + 1)..Len(term) : term[j] = ")"

\* content.match(regex) with the g flag, for a term of letters and digits:
\* the number of non-overlapping occurrences, scanning from the left
matchCount(content, term) ==
    LET RECURSIVE Go(_)
        Go(i) ==
            IF i + Len(term) - 1 > Len(content) THEN 0
            ELSE IF OccursAt(content, term, i) THEN 1 + Go(i + Len(term))
            ELSE Go(i + 1)
    IN  Go(1)

\* does scoring a chunk for these terms throw
scoringThrows(terms) == \E i \in DOMAIN terms : regExpThrows(terms[i])

\* the score of one chunk
score(contentText, terms) ==
    LET content == toLowerCase(contentText)
    IN  SumSeq([i \in DOMAIN terms |-> matchCount(content, terms[i])])

\* a ranking that leaves the chunks in the order of the lookup, to measure
\* what Tier1RankedByScore owes to the sort
sortSkipped(chunks, scores) == chunks

\* scoredChunks.sort((a, b) => b.score - a.score): a stable sort, by
\* descending score, of chunks given with their scores
RECURSIVE sortByScore(_, _)
sortByScore(chunks, scores) ==
    IF chunks = <<>> THEN <<>>
    ELSE LET best == CHOOSE i \in DOMAIN chunks :
                        /\ \A j \in DOMAIN chunks : scores[j] <= scores[i]
                        /\ \A j \in 1..(i - 1) : scores[j] < scores[i]
             drop(s) == [j \in 1..(Len(s) - 1) |-> IF j < best THEN s[j] ELSE s[j + 1]]
         IN  <<chunks[best]>> \o sortByScore(drop(chunks), drop(scores))

\* scores of the rows for a question, as a constant table of the model
ScoreTable ==
    [q \in Questions, c \in Contents |->
        IF scoringThrows(queryTerms(TextOf(q))) THEN 0
        ELSE score(TextOf(c), queryTerms(TextOf(q)))]

\* the scored, sorted, sliced result of embeddingService.js 173-197 and of
\* part_002 73-96
rankChunks(found, q, topK) ==
    slice(sortByScore(found, [i \in DOMAIN found |-> ScoreTable[q, found[i].content]]), topK)

\* .map(doc => ({ pageContent: doc.content, metadata: doc.metadata }))
toChunks(found) ==
    [i \in DOMAIN found |-> [pageContent |-> found[i].content, metadata |-> found[i].metadata]]

\* the Tier-1 branch of findRelevantChunks on a non-empty result (162-197):
\* without terms the first topK rows are returned unscored
tier1Result(found, q, topK) ==
    IF queryTerms(TextOf(q)) = <<>> THEN slice(found, topK) ELSE rankChunks(found, q, topK)

-----------------------------------------------------------------------------
(* Queries on the table "documents" *)

\* SELECT ... WHERE metadata->>'documentId' = $1 OR metadata->>'document_id' = $1
\*   OR metadata->>'id' = $1
directLookup(table_rows, d) ==
    filter(table_rows, LAMBDA r :
        \/ idStr(r.metadata.documentId) = idStr(d)
        \/ idStr(r.metadata.document_id) = idStr(d)
        \/ idStr(r.metadata.id) = idStr(d))

\* the post-filter of the vector results (embeddingService.js 219-231)
vectorFilter(result, d) ==
    filter(result, LAMBDA r :
        \/ idStr(r.metadata.documentId) = idStr(d)
        \/ idStr(r.metadata.document_id) = idStr(d)
        \/ idStr(r.metadata.id) = idStr(d))

\* SELECT ... WHERE metadata::text LIKE '%' || $1 || '%'
likeLookup(table_rows, d) ==
    filter(table_rows, LAMBDA r : includes(metadataText(r.metadata), idStr(d)))

\* the filter of the last-resort query (part_002 53-66)
lastResortFilter(result, d) ==
    filter(result, LAMBDA r :
        \/ idStr(r.metadata.documentId) = idStr(d)
        \/ idStr(r.metadata.document_id) = idStr(d)
        \/ idStr(r.metadata.id) = idStr(d)
        \/ includes(idStr(r.metadata.documentId), idStr(d)))

\* the sequences of at most n distinct rows of s, in any order: what
\* match_documents may return with LIMIT n, the similarity of two embeddings
\* (which selects and orders the rows) being the backend's
SeqsUpTo(s, n) ==
    LET Inj(k) == {f \in [1..k -> DOMAIN s] : \A x, y \in 1..k : f[x] = f[y] => x = y}
        m == IF n < Len(s) THEN n ELSE Len(s)
    IN  UNION {{[i \in 1..k |-> s[f[i]]] : f \in Inj(k)} : k \in 0..m}

\* SELECT * FROM match_documents($1, 0.1, $2): rows whose similarity to the
\* query exceeds the threshold, nearest first, at most limit of them.  A row
\* with an all-zero embedding has no cosine similarity and never matches.
matchDocuments(table_rows, limit) ==
    SeqsUpTo(filter(table_rows, LAMBDA r : ~r.embedding.zero), limit)

-----------------------------------------------------------------------------
(* Requests: local state *)

\* the value of a property an object does not have
Undefined == -1

\* queryEmbedding before embedQuery returned
NoVector == [len |-> Undefined, zero |-> FALSE]

NoResult ==
    [status |-> "none", msg |-> <<>>, chunks |-> Undefined,
     answer |-> <<>>, by |-> "none", sources |-> <<>>,
     http |-> 0, data |-> "none"]

IdleTask ==
    [op |-> "idle", pc |-> "idle", doc |-> "d1", q |-> "none", topK |-> 0,
     chunks |-> <<>>, vectors |-> <<>>, i |-> 0, conn |-> FALSE,
     vec |-> NoVector, found |-> <<>>, findErr |-> <<>>, calls |-> <<>>,
     tier1 |-> Undefined, limit |-> Undefined, matched |-> Undefined,
     loaded |-> FALSE, deleted |-> FALSE, result |-> NoResult]

\* clients checked out of the pool: those requests hold, and those a request
\* that has ended never released
CheckedOut == Cardinality({t \in Tasks : tasks[t].conn}) + env.leaked

\* clients of the pool that are not checked out
Free == PoolMax - CheckedOut

\* messages of errors raised outside the program
DbError    == "database error"
MongoError == "registry error"
FileError  == "file error"
LlmError   == "model error"

\* throw new Error(message) leaving the handler: the caller gets an Error
\* that has a message and no other property of the program
raise(tk, message) ==
    [tk EXCEPT !.pc = "done", !.conn = FALSE,
               !.result = [NoResult EXCEPT !.status = "raised", !.msg = message]]

Set(t, tk) == tasks' = [tasks EXCEPT ![t] = tk]

-----------------------------------------------------------------------------
(* uploadDocument (part_004 26-89) *)

Upload(d, u) ==
    /\ ~docs[d].exists
    /\ docs' = [docs EXCEPT ![d] = NewDoc(u)]
    /\ UNCHANGED <<table, rows, tasks, env>>
    /\ UNCHANGED <<evars, pool>>

-----------------------------------------------------------------------------
(* processDocument and EmbeddingService.createEmbeddings *)

\* catch (error) { throw new Error(`Failed to create embeddings: ...`) }
createEmbeddingsFails(tk, cause) == raise(tk, <<"Failed to create embeddings: ">> \o cause)

\* processDocument 101-117 and createEmbeddings 17-26: look the document up,
\* extract its text, look it up again
StartProcess(t, d) ==
    /\ tasks[t].op = "idle"
    /\ env.ingests < MaxIngests
    /\ env' = [env EXCEPT !.ingests = @ + 1]
    /\ LET tk == [IdleTask EXCEPT !.op = "process", !.doc = d] IN
       \/ /\ ~docs[d].exists
          /\ Set(t, [tk EXCEPT !.pc = "done",
                               !.result = [NoResult EXCEPT !.status = "notFound",
                                                           !.msg = <<"Document not found">>]])
       \/ Set(t, raise(tk, <<"Error processing document: ", MongoError>>))
       \/ /\ docs[d].exists
          /\ Set(t, raise(tk, <<"Error extracting text from file: ", FileError>>))
       \/ /\ docs[d].exists
          /\ Set(t, [tk EXCEPT !.pc = "p_conn", !.loaded = docs[d].vectorized])
    /\ UNCHANGED <<docs, table, rows>>
    /\ UNCHANGED <<evars, pool>>

\* createEmbeddings 29-34 when 'SELECT 1' throws: client.release() of line 31
\* is skipped, the catch of line 32 has no release and the client goes out
\* of scope checked out
testQueryThrew(e) == [e EXCEPT !.leaked = @ + 1]

\* createEmbeddings 28-35: connect, SELECT 1, release
TestConnection(t) ==
    /\ tasks[t].pc = "p_conn"
    /\ \/ /\ Free > 0
          /\ Set(t, [tasks[t] EXCEPT !.pc = "p_sync"])
          /\ env' = env
       \/ /\ Free > 0
          /\ Set(t, createEmbeddingsFails(tasks[t], <<"Failed to connect to PostgreSQL: ", DbError>>))
          /\ env' = testQueryThrew(env)
       \/ /\ Set(t, createEmbeddingsFails(tasks[t], <<"Failed to connect to PostgreSQL: ", DbError>>))
          /\ env' = env
    /\ UNCHANGED <<docs, table, rows>>
    /\ UNCHANGED <<evars, pool>>

\* PostgresDocumentModel.sync (183-216) inside PgVectorService.syncDatabase
\* (402-449): the table and rows it may leave behind.  Every error is caught
\* and reported as status false.
syncOutcomes(tbl, rws, free) ==
    {<<tbl, rws>>}
    \cup (IF free > 0 /\ tbl = "absent" THEN {<<"ok", rws>>} ELSE {})
    \cup (IF free > 0 /\ tbl = "legacy" THEN {<<"ok", <<>>>>, <<"absent", <<>>>>} ELSE {})

\* createEmbeddings 37-56: synchronise the schema (a failure is only logged),
\* build the embedding model, split the text
SyncAndSplit(t) ==
    /\ tasks[t].pc = "p_sync"
    /\ \E o \in syncOutcomes(table, rows, Free) :
         /\ table' = o[1]
         /\ rows' = o[2]
    /\ Set(t, [tasks[t] EXCEPT !.pc = "p_embed",
                               !.chunks = splitText(docs[tasks[t].doc].upload)])
    /\ UNCHANGED <<docs, env>>
    /\ UNCHANGED <<evars, pool>>

\* responses of the embedding backend considered for a request
PipeVectors == {ZeroVector(D), <<2>>}
PipeResponses == [kind : {"error"}, v : {<<>>}] \cup [kind : {"vector"}, v : PipeVectors]

\* what DirectOllamaEmbeddings.embedQuery may return for a text, as the store
\* sees it
OllamaEmbeddings ==
    [id \in Questions \cup Contents |->
        {AbsVec(embedQuery(id, resps)) : resps \in [1..NumMethods -> PipeResponses]}]

\* models of OpenAIEmbeddings: OPENAI_EMBEDDING_MODEL, "text-embedding-3-small"
\* when it is not set, or a model whose vectors have another length
OpenAIModels == {"text-embedding-3-small", "other"}

\* the length of the vectors of a model of OpenAIEmbeddings: nothing resizes
\* them
openAIDimension(model) == IF model = "text-embedding-3-small" THEN D ELSE D + 1

\* a vector of OpenAIEmbeddings, as the store sees it
OpenAIVector == [len |-> openAIDimension(env.openaiModel), zero |-> FALSE]

\* one iteration of DirectOllamaEmbeddings.embedDocuments (29-39), or the
\* call of OpenAIEmbeddings.embedDocuments, which may throw
\* (PostgresVectorStore.fromTexts 26)
EmbedChunks(t) ==
    /\ tasks[t].pc = "p_embed"
    /\ LET tk == tasks[t]
           n  == Len(tk.vectors)
           embedded(vs) == [tk EXCEPT !.vectors = vs,
                                      !.pc = IF Len(vs) = Len(tk.chunks) THEN "p_acquire" ELSE "p_embed"]
       IN  IF env.embeddingModel = "openai"
           THEN \/ Set(t, createEmbeddingsFails(tk, <<"embedding request failed">>))
                \/ Set(t, embedded([i \in DOMAIN tk.chunks |-> OpenAIVector]))
           ELSE IF n = Len(tk.chunks)
                THEN Set(t, embedded(tk.vectors))
                ELSE \E v \in OllamaEmbeddings[tk.chunks[n + 1]] :
                        Set(t, embedded(Append(tk.vectors, v)))
    /\ UNCHANGED <<docs, table, rows, env>>
    /\ UNCHANGED <<evars, pool>>

\* an INSERT that writes the row without the document's tags, to measure what
\* IngestAddsItsChunks owes to the metadata of the row
newRowUntagged(tk, u) ==
    [content |-> tk.chunks[tk.i + 1],
     metadata |-> chunkMetadata("none", u),
     embedding |-> tk.vectors[tk.i + 1]]

\* the row an INSERT of fromTexts writes (36-39)
newRow(tk, u) ==
    [content |-> tk.chunks[tk.i + 1],
     metadata |-> chunkMetadata(tk.doc, u),
     embedding |-> tk.vectors[tk.i + 1]]

\* fromTexts 30-45 after the insert loop: finally release, return the store
insertsDone(tk) == [tk EXCEPT !.conn = FALSE, !.pc = "p_save"]

\* an insert error that is swallowed, the ingestion going on to the save, to
\* measure what VectorizedOnlyAfterAllInserts owes to the error propagating
insertFailureIgnored(tk) == insertsDone(tk)

\* fromTexts 41-43 and createEmbeddings 88-91 when an INSERT throws: the
\* client is released and the error propagates
insertFailed(tk) == createEmbeddingsFails(tk, <<DbError>>)

\* a failure that deletes the rows the ingestion had inserted, to measure what
\* InsertFailureKeepsRows owes to the absence of a rollback
rowsRolledBack(rws, tk) == SubSeq(rws, 1, Len(rws) - tk.i)

\* the rows of the table after an INSERT of the loop has thrown: nothing is
\* rolled back
rowsAfterFailure(rws, tk) == rws

\* fromTexts 29: const client = await store.pool.connect()
AcquireForInsert(t) ==
    /\ tasks[t].pc = "p_acquire"
    /\ LET tk == tasks[t] IN
       \/ /\ Free > 0
          /\ Set(t, IF Len(tk.chunks) = 0 THEN insertsDone(tk)
                    ELSE [tk EXCEPT !.conn = TRUE, !.pc = "p_insert"])
       \/ Set(t, createEmbeddingsFails(tk, <<DbError>>))
    /\ UNCHANGED <<docs, table, rows, env>>
    /\ UNCHANGED <<evars, pool>>

\* a column that takes a vector of any length, to measure what
\* RowsHaveDimension owes to the type of the column
columnAcceptsAny(v) == TRUE

\* embedding VECTOR(1536): the column, and the parameter of match_documents,
\* take vectors of the configured length only
columnAccepts(v) == v.len = D

\* one iteration of the insert loop of fromTexts (31-40)
InsertChunk(t) ==
    /\ tasks[t].pc = "p_insert"
    /\ LET tk == tasks[t] IN
       \/ /\ table # "absent"
          /\ columnAccepts(tk.vectors[tk.i + 1])
          /\ Len(rows) < MaxRows
          /\ rows' = Append(rows, newRow(tk, docs[tk.doc].upload))
          /\ Set(t, IF tk.i + 1 = Len(tk.chunks)
                    THEN insertsDone([tk EXCEPT !.i = tk.i + 1])
                    ELSE [tk EXCEPT !.i = tk.i + 1])
       \/ /\ rows' = rowsAfterFailure(rows, tk)
          /\ Set(t, insertFailed(tk))
    /\ UNCHANGED <<docs, table, env>>
    /\ UNCHANGED <<evars, pool>>

\* a save that clears the flag, to measure what FlagOnlyEverSet owes to the
\* value createEmbeddings assigns
savedUnflagged(doc, loaded) == [doc EXCEPT !.vectorized = FALSE, !.writes = @ + 1]

\* createEmbeddings 78-80: document.vectorized = true; await document.save().
\* The document is the one findById returned at line 17 (tk.loaded is its
\* flag then); save() sends the paths whose value was changed by an
\* assignment, so a document loaded with the flag set sends none.
saved(doc, loaded) ==
    IF loaded THEN doc ELSE [doc EXCEPT !.vectorized = TRUE, !.writes = @ + 1]

\* createEmbeddings 77-87: set the flag, save, report the chunk count
SaveVectorized(t) ==
    /\ tasks[t].pc = "p_save"
    /\ LET tk == tasks[t] IN
       \/ /\ docs' = [docs EXCEPT ![tk.doc] = saved(@, tk.loaded)]
          /\ Set(t, [tk EXCEPT !.pc = "done",
                               !.result = [NoResult EXCEPT !.status = "returned",
                                                           !.chunks = Len(tk.chunks)]])
       \/ /\ docs' = docs
          /\ Set(t, createEmbeddingsFails(tk, <<MongoError>>))
    /\ UNCHANGED <<table, rows, env>>
    /\ UNCHANGED <<evars, pool>>

-----------------------------------------------------------------------------
(* QAService._generateFallbackAnswer (part_002 214-292) *)

\* String.prototype.match(pattern) with the g flag: the matches found scanning
\* from the left, each search resuming after the previous match.
\* MatchLen(s, i) is the length of the pattern's match at position i, 0 if none.
matchAll(s, MatchLen(_, _)) ==
    LET RECURSIVE Go(_)
        Go(i) ==
            IF i > Len(s) THEN <<>>
            ELSE LET n == MatchLen(s, i)
                 IN  IF n > 0 THEN <<SubSeq(s, i, i + n - 1)>> \o Go(i + n)
                     ELSE Go(i + 1)
    IN  Go(1)

\* length of the longest run of characters satisfying Is starting at i
RunLen(s, i, Is(_)) ==
    LET RECURSIVE Go(_)
        Go(j) == IF j <= Len(s) /\ Is(s[j]) THEN 1 + Go(j + 1) ELSE 0
    IN  Go(i)

Min(a, b) == IF a < b THEN a ELSE b

\* [A-Z][a-z]+ at position i: its length, 0 if it does not match
capWordLen(s, i) ==
    IF i <= Len(s) /\ IsUpper(s[i]) /\ RunLen(s, i + 1, IsLower) > 0
    THEN 1 + RunLen(s, i + 1, IsLower) ELSE 0

\* /([A-Z][a-z]+ [A-Z][a-z]+)/
namePattern(s, i) ==
    LET a == capWordLen(s, i)
        b == capWordLen(s, i + a + 1)
    IN  IF a > 0 /\ i + a <= Len(s) /\ s[i + a] = " " /\ b > 0 THEN a + 1 + b ELSE 0

IsDateSep(c) == c \in {"/", "-"}

\* /(\d{1,2}[\/\-]\d{1,2}[\/\-]\d{2,4}|\d{4})/
datePattern(s, i) ==
    LET a  == Min(RunLen(s, i, IsDigit), 2)
        j  == i + a
        b  == Min(RunLen(s, j + 1, IsDigit), 2)
        k  == j + 1 + b
        c  == Min(RunLen(s, k + 1, IsDigit), 4)
        full == /\ a > 0
                /\ j <= Len(s) /\ IsDateSep(s[j])
                /\ b > 0
                /\ k <= Len(s) /\ IsDateSep(s[k])
                /\ c >= 2
    IN  IF full THEN a + 1 + b + 1 + c
        ELSE IF RunLen(s, i, IsDigit) >= 4 THEN 4
        ELSE 0

PlaceWords ==
    << <<"C","i","t","y">>, <<"D","i","s","t","r","i","c","t">>, <<"S","t","a","t","e">>,
       <<"C","o","u","n","t","r","y">>, <<"P","u","n","e">>, <<"M","u","m","b","a","i">>,
       <<"D","e","l","h","i">> >>

\* /([A-Z][a-z]+ (?:City|District|State|Country|Pune|Mumbai|Delhi))/
locationPattern(s, i) ==
    LET a == capWordLen(s, i)
        hits == {w \in DOMAIN PlaceWords : OccursAt(s, PlaceWords[w], i + a + 1)}
    IN  IF a > 0 /\ i + a <= Len(s) /\ s[i + a] = " " /\ hits # {}
        THEN a + 1 + Len(PlaceWords[CHOOSE w \in hits : \A x \in hits : w <= x])
        ELSE 0

IsSentenceEnd(c) == c \in {".", "!", "?"}

\* text.split(/[.!?]+/).filter(s => s.trim().length > n).map(s => s.trim())
sentences(text, n) ==
    LET kept == filter(SplitRuns(text, IsSentenceEnd), LAMBDA s : Len(trim(s)) > n)
    IN  [i \in DOMAIN kept |-> trim(kept[i])]

RECURSIVE flatten(_)
flatten(seqs) == IF seqs = <<>> THEN <<>> ELSE Head(seqs) \o flatten(Tail(seqs))

MinSentence  == 20
MinGeneric   == 30
MaxSentences == 5
MaxEntities  == 3

NotEnough ==
    <<"I"," ","d","o","n","'","t"," ","h","a","v","e"," ","e","n","o","u","g","h"," ",
      "i","n","f","o","r","m","a","t","i","o","n"," ","t","o"," ","a","n","s","w","e","r"," ",
      "t","h","i","s"," ","q","u","e","s","t","i","o","n",".">>

\* an answer made of the first chunk whatever the question, to measure what
\* ModelFailureGivesHeuristicAnswer owes to the heuristics
firstChunkAnswer(question, chunks) ==
    [by |-> "first", text |-> trim(TextOf(chunks[1].pageContent))]

\* the answer and, as by, the branch that returned it
generateFallbackAnswer(question, chunks) ==
    LET questionLower == toLowerCase(question)
        contents == [i \in DOMAIN chunks |-> TextOf(chunks[i].pageContent)]
        context  == join(contents, <<" ">>)
        has(w)   == includes(questionLower, w)
        relevantSentences ==
            slice(flatten([i \in DOMAIN contents |-> sentences(contents[i], MinSentence)]),
                  MaxSentences)
        names     == matchAll(context, namePattern)
        dates     == matchAll(context, datePattern)
        locations == matchAll(context, locationPattern)
        entities(found) == join(slice(unique(found), MaxEntities), <<",", " ">>) \o <<".">>
        combinedContent ==
            join(filter([i \in DOMAIN contents |-> trim(contents[i])],
                        LAMBDA content : Len(content) > 0), <<" ">>)
        generic == [i \in DOMAIN slice(filter(SplitRuns(combinedContent, IsSentenceEnd),
                                              LAMBDA s : Len(trim(s)) > MinGeneric), MaxEntities)
                      |-> trim(slice(filter(SplitRuns(combinedContent, IsSentenceEnd),
                                            LAMBDA s : Len(trim(s)) > MinGeneric), MaxEntities)[i])]
    IN  IF (has(<<"w","h","a","t">>) \/ has(<<"w","h","a","t"," ","i","s">>))
           /\ Len(relevantSentences) > 0
        THEN [by |-> "what", text |-> trim(join(relevantSentences, <<".", " ">>)) \o <<".">>]
        ELSE IF has(<<"w","h","o">>) /\ Len(names) > 0
        THEN [by |-> "who", text |-> entities(names)]
        ELSE IF has(<<"w","h","e","n">>) /\ Len(dates) > 0
        THEN [by |-> "when", text |-> entities(dates)]
        ELSE IF has(<<"w","h","e","r","e">>) /\ Len(locations) > 0
        THEN [by |-> "where", text |-> entities(locations)]
        ELSE IF Len(chunks) > 0
        THEN IF Len(generic) > 0
             THEN [by |-> "generic", text |-> trim(join(generic, <<".", " ">>)) \o <<".">>]
             ELSE [by |-> "first", text |-> trim(contents[1])]
        ELSE [by |-> "none", text |-> NotEnough]

-----------------------------------------------------------------------------
(* EmbeddingService.findRelevantChunks and QAService.askQuestion *)

CouldNotFind ==
    <<"I couldn't find relevant information in the document to answer your question.">>

\* relevantChunks.map(chunk => ({ content: chunk.pageContent, metadata: chunk.metadata }))
toSources(chunks) ==
    [i \in DOMAIN chunks |-> [content |-> chunks[i].pageContent, metadata |-> chunks[i].metadata]]

\* askQuestion 109-114 with the chunks the retriever or the last resort gave
askWithChunks(tk, chunks) ==
    IF Len(chunks) = 0
    THEN [tk EXCEPT !.pc = "done", !.conn = FALSE,
                    !.result = [NoResult EXCEPT !.status = "returned", !.by = "fixed",
                                                !.answer = CouldNotFind, !.sources = <<>>]]
    ELSE [tk EXCEPT !.pc = "a_llm", !.conn = FALSE, !.found = chunks]

\* askQuestion 166-169: throw new Error(`Failed to process question: ...`)
askRaises(tk, cause) == raise(tk, <<"Failed to process question: ">> \o cause)

\* a failed last resort that goes on with no chunks, to measure what
\* LastResortEmptyRaises owes to the throw of lines 103-106
lastResortGivesUp(tk, cause) == askWithChunks(tk, <<>>)

\* askQuestion 103-106: the last resort failed as well
lastResortFails(tk, cause) ==
    askRaises(tk, <<"Unable to retrieve relevant content: ">> \o tk.findErr
                  \o <<". Fallback also failed: ">> \o cause)

\* findRelevantChunks 254-257: whatever is thrown is wrapped and rethrown; in
\* askQuestion the catch of lines 34-37 then starts the last resort
findThrows(tk, cause) ==
    LET message == <<"Failed to find relevant chunks: ">> \o cause
    IN  IF tk.op = "find" THEN raise(tk, message)
        ELSE [tk EXCEPT !.pc = "a_lr_connect", !.conn = FALSE, !.findErr = message]

\* findRelevantChunks returns chunks to its caller
findReturns(tk, chunks) ==
    IF tk.op = "find"
    THEN [tk EXCEPT !.pc = "done", !.conn = FALSE,
                    !.result = [NoResult EXCEPT !.status = "returned",
                                                !.sources = toSources(chunks)]]
    ELSE askWithChunks(tk, chunks)

\* an empty list returned where lines 247-249 throw, to measure what
\* FindNeverReturnsEmpty owes to the throw
noChunksReturnsEmpty(tk) == findReturns(tk, <<>>)

\* findRelevantChunks 247-249
noChunksFound(tk) == findThrows(tk, <<"No chunks found for document ID: ", tk.doc>>)

\* an error of the vector search that leaves findRelevantChunks as it is, to
\* measure what VectorTierEndsInNoChunks owes to the catch of lines 243-245
vectorSearchErrorEscapes(tk, cause) == findThrows(tk, cause)

\* findRelevantChunks 243-249: an error of the vector search is caught and
\* logged, and the function goes on to throw "No chunks found"
vectorSearchFailed(tk, cause) == noChunksFound(tk)

called(tk, what) == [tk EXCEPT !.calls = Append(tk.calls, what)]

\* a lookup that does not test the vectorized flag, to measure what
\* FindChecksRegistryFirst owes to lines 139-142
findLookupWithoutFlag(tk) ==
    {findThrows(tk, <<MongoError>>)}
    \cup (IF ~docs[tk.doc].exists THEN {findThrows(tk, <<"Document not found">>)}
          ELSE {[tk EXCEPT !.pc = "f_connect"]})

\* findRelevantChunks 131-142
findLookup(tk) ==
    {findThrows(tk, <<MongoError>>)}
    \cup (IF ~docs[tk.doc].exists THEN {findThrows(tk, <<"Document not found">>)}
          ELSE IF ~docs[tk.doc].vectorized
          THEN {findThrows(tk, <<"Document has not been vectorized">>)}
          ELSE {[tk EXCEPT !.pc = "f_connect"]})

\* a direct call of findRelevantChunks(documentId, query, topK)
StartFind(t, d, q, k) ==
    /\ tasks[t].op = "idle"
    /\ \E tk \in findLookup([IdleTask EXCEPT !.op = "find", !.doc = d, !.q = q, !.topK = k]) :
          Set(t, tk)
    /\ UNCHANGED <<docs, table, rows, env>>
    /\ UNCHANGED <<evars, pool>>

\* askQuestion(documentId, question, topK), lines 17-26
StartAsk(t, d, q, k) ==
    /\ tasks[t].op = "idle"
    /\ LET tk == [IdleTask EXCEPT !.op = "ask", !.doc = d, !.q = q, !.topK = k] IN
       \/ Set(t, askRaises(tk, <<MongoError>>))
       \/ /\ ~docs[d].exists
          /\ Set(t, askRaises(tk, <<"Document not found with ID: ", d>>))
       \/ /\ docs[d].exists /\ ~docs[d].vectorized
          /\ Set(t, askRaises(tk, <<"Document has not been processed for Q&A yet">>))
       \/ /\ docs[d].exists /\ docs[d].vectorized
          /\ Set(t, [tk EXCEPT !.pc = "f_lookup", !.deleted = docs[d].isDeleted])
    /\ UNCHANGED <<docs, table, rows, env>>
    /\ UNCHANGED <<evars, pool>>

\* findRelevantChunks called by askQuestion (line 32), lines 131-142
FindLookup(t) ==
    /\ tasks[t].pc = "f_lookup"
    /\ \E tk \in findLookup(tasks[t]) : Set(t, tk)
    /\ UNCHANGED <<docs, table, rows, env>>
    /\ UNCHANGED <<evars, pool>>

\* findRelevantChunks 146: const client = await pgPool.connect()
FindConnect(t) ==
    /\ tasks[t].pc = "f_connect"
    /\ LET tk == called(tasks[t], "connect") IN
       \/ /\ Free > 0
          /\ Set(t, [tk EXCEPT !.conn = TRUE, !.pc = "f_tier1"])
       \/ Set(t, findThrows(tk, <<DbError>>))
    /\ UNCHANGED <<docs, table, rows, env>>
    /\ UNCHANGED <<evars, pool>>

\* a lookup whose rows are not used and that always goes on to the vector
\* search, to measure what Tier1SkipsVectorSearch owes to the test of
\* line 159
directLookupAlwaysVector(tk, directResult) == [tk EXCEPT !.pc = "f_embed"]

\* findRelevantChunks 157-201: rows found by the direct lookup are scored and
\* returned; only without rows does the request go on to the vector search
directLookupDone(tk, directResult) ==
    IF Len(directResult) > 0
    THEN IF scoringThrows(queryTerms(TextOf(tk.q)))
         THEN findThrows(tk, <<"Invalid regular expression">>)
         ELSE findReturns(tk, toChunks(tier1Result(directResult, tk.q, tk.topK)))
    ELSE [tk EXCEPT !.pc = "f_embed"]

\* findRelevantChunks 151-198: the direct lookup and the scoring of its rows
FindTier1(t) ==
    /\ tasks[t].pc = "f_tier1"
    /\ LET tk == called(tasks[t], "query")
           directResult == directLookup(rows, tk.doc)
       IN
       \/ Set(t, findThrows(tk, <<DbError>>))
       \/ /\ table # "absent"
          /\ Set(t, directLookupDone([tk EXCEPT !.tier1 = Len(directResult)], directResult))
    /\ UNCHANGED <<docs, table, rows, env>>
    /\ UNCHANGED <<evars, pool>>

\* findRelevantChunks 203-209, 240-249: embed the question; an all-zero
\* embedding skips the vector search
FindEmbed(t) ==
    /\ tasks[t].pc = "f_embed"
    /\ LET tk == called(tasks[t], "embed")
           hasNonZeroValues(v) == ~v.zero
           embedded(v) == IF hasNonZeroValues(v) THEN [tk EXCEPT !.pc = "f_vector", !.vec = v]
                          ELSE noChunksFound([tk EXCEPT !.vec = v])
       IN  IF env.embeddingModel = "openai"
           THEN \/ Set(t, vectorSearchFailed(tk, <<"embedding request failed">>))
                \/ Set(t, embedded(OpenAIVector))
           ELSE \E v \in OllamaEmbeddings[tk.q] : Set(t, embedded(v))
    /\ UNCHANGED <<docs, table, rows, env>>
    /\ UNCHANGED <<evars, pool>>

\* a similarity query limited to topK rows, to measure what
\* VectorTierQueriesAndFilters owes to the doubled limit
matchLimitTopK(topK) == topK

\* findRelevantChunks 213: the limit passed to match_documents
matchLimit(topK) == topK * 2

\* findRelevantChunks 210-239: the similarity query and its post-filter
FindVector(t) ==
    /\ tasks[t].pc = "f_vector"
    /\ LET tq == called(tasks[t], "query")
           tk == [tq EXCEPT !.limit = matchLimit(tq.topK)]
       IN
       \/ Set(t, vectorSearchFailed(tk, <<DbError>>))
       \/ /\ table # "absent"
          /\ columnAccepts(tk.vec)
          /\ \E vectorResult \in matchDocuments(rows, tk.limit) :
                LET matchingChunks == vectorFilter(vectorResult, tk.doc)
                    tm == [tk EXCEPT !.matched = Len(vectorResult)]
                IN  Set(t, IF Len(matchingChunks) > 0
                           THEN findReturns(tm, toChunks(slice(matchingChunks, tk.topK)))
                           ELSE noChunksFound(tm))
    /\ UNCHANGED <<docs, table, rows, env>>
    /\ UNCHANGED <<evars, pool>>

\* askQuestion 40-41: the last resort connects to the pool
LastResortConnect(t) ==
    /\ tasks[t].pc = "a_lr_connect"
    /\ LET tk == called(tasks[t], "connect") IN
       \/ /\ Free > 0
          /\ Set(t, [tk EXCEPT !.conn = TRUE, !.pc = "a_lr_query"])
       \/ Set(t, lastResortFails(tk, <<DbError>>))
    /\ UNCHANGED <<docs, table, rows, env>>
    /\ UNCHANGED <<evars, pool>>

\* a last resort that keeps every row its query returned, to measure what
\* SourcesBelongToDocument owes to the filter of lines 53-66
lastResortUnfiltered(result, d) == result

\* the rows the last resort keeps of its query result (askQuestion 53-66)
lastResortMatching(result, d) == lastResortFilter(result, d)

\* askQuestion 43-102: the substring query, its filter and the scoring
LastResortQuery(t) ==
    /\ tasks[t].pc = "a_lr_query"
    /\ LET tk == called(tasks[t], "query")
           result == likeLookup(rows, tk.doc)
           matchingChunks == lastResortMatching(result, tk.doc)
       IN
       \/ Set(t, lastResortFails(tk, <<DbError>>))
       \/ /\ table # "absent"
          /\ Set(t, IF Len(result) = 0
                    THEN lastResortFails(tk, <<"No documents found in database">>)
                    ELSE IF Len(matchingChunks) > 0
                    THEN IF scoringThrows(queryTerms(TextOf(tk.q)))
                         THEN lastResortFails(tk, <<"Invalid regular expression">>)
                         ELSE askWithChunks(tk, toChunks(rankChunks(matchingChunks, tk.q, tk.topK)))
                    ELSE lastResortFails(tk, <<"No chunks found for document ID: ", tk.doc>>))
    /\ UNCHANGED <<docs, table, rows, env>>
    /\ UNCHANGED <<evars, pool>>

\* a language-model failure that escapes to the outer catch of askQuestion, to
\* measure what AskRaisesBeforeModelOnly owes to the catch of lines 150-156
llmFailureEscapes(tk) == askRaises(tk, <<LlmError>>)

\* askQuestion 155: what follows a throw of the language model
llmFailed(tk) ==
    LET fallback == generateFallbackAnswer(TextOf(tk.q), tk.found)
    IN  [tk EXCEPT !.pc = "done",
                   !.result = [NoResult EXCEPT !.status = "returned", !.by = fallback.by,
                                               !.answer = fallback.text,
                                               !.sources = toSources(tk.found)]]

\* askQuestion 117-165: one call of the language model; its answer, or the
\* heuristic answer when it throws
CallLLM(t) ==
    /\ tasks[t].pc = "a_llm"
    /\ LET tk == called(tasks[t], "llm") IN
       \/ Set(t, [tk EXCEPT !.pc = "done",
                            !.result = [NoResult EXCEPT !.status = "returned", !.by = "llm",
                                                        !.answer = <<"answer of the model">>,
                                                        !.sources = toSources(tk.found)]])
       \/ Set(t, llmFailed(tk))
    /\ UNCHANGED <<docs, table, rows, env>>
    /\ UNCHANGED <<evars, pool>>

-----------------------------------------------------------------------------
(* askQuestion of the controller (part_004 145-224) *)

\* the characters of the fragments error messages are made of
FragmentText(f) ==
    CASE f = "Failed to process question: " ->
         <<"F","a","i","l","e","d"," ","t","o"," ","p","r","o","c","e","s","s"," ","q","u","e","s","t","i","o","n",":"," ">>
      [] f = "Document not found with ID: " ->
         <<"D","o","c","u","m","e","n","t"," ","n","o","t"," ","f","o","u","n","d"," ","w","i","t","h"," ","I","D",":"," ">>
      [] f = "Document has not been processed for Q&A yet" ->
         <<"D","o","c","u","m","e","n","t"," ","h","a","s"," ","n","o","t"," ","b","e","e","n"," ","p","r","o","c","e","s","s","e","d"," ","f","o","r"," ","Q","&","A"," ","y","e","t">>
      [] f = "Unable to retrieve relevant content: " ->
         <<"U","n","a","b","l","e"," ","t","o"," ","r","e","t","r","i","e","v","e"," ","r","e","l","e","v","a","n","t"," ","c","o","n","t","e","n","t",":"," ">>
      [] f = "Failed to find relevant chunks: " ->
         <<"F","a","i","l","e","d"," ","t","o"," ","f","i","n","d"," ","r","e","l","e","v","a","n","t"," ","c","h","u","n","k","s",":"," ">>
      [] f = "No chunks found for document ID: " ->
         <<"N","o"," ","c","h","u","n","k","s"," ","f","o","u","n","d"," ","f","o","r"," ","d","o","c","u","m","e","n","t"," ","I","D",":"," ">>
      [] f = ". Fallback also failed: " ->
         <<"."," ","F","a","l","l","b","a","c","k"," ","a","l","s","o"," ","f","a","i","l","e","d",":"," ">>
      [] f = "Document not found" ->
         <<"D","o","c","u","m","e","n","t"," ","n","o","t"," ","f","o","u","n","d">>
      [] f = "Document has not been vectorized" ->
         <<"D","o","c","u","m","e","n","t"," ","h","a","s"," ","n","o","t"," ","b","e","e","n"," ","v","e","c","t","o","r","i","z","e","d">>
      [] f = "Invalid regular expression" ->
         <<"I","n","v","a","l","i","d"," ","r","e","g","u","l","a","r"," ","e","x","p","r","e","s","s","i","o","n">>
      [] f = "No documents found in database" ->
         <<"N","o"," ","d","o","c","u","m","e","n","t","s"," ","f","o","u","n","d"," ","i","n"," ","d","a","t","a","b","a","s","e">>
      [] f = "embedding request failed" ->
         <<"e","m","b","e","d","d","i","n","g"," ","r","e","q","u","e","s","t"," ","f","a","i","l","e","d">>
      [] f = "database error" ->
         <<"d","a","t","a","b","a","s","e"," ","e","r","r","o","r">>
      [] f = "registry error" ->
         <<"r","e","g","i","s","t","r","y"," ","e","r","r","o","r">>
      [] f = "file error" ->
         <<"f","i","l","e"," ","e","r","r","o","r">>
      [] f = "model error" ->
         <<"m","o","d","e","l"," ","e","r","r","o","r">>
      [] f \in DocIds -> idStr(f)

\* the strings the controller looks for in the message of an error
NeedleNotFound == <<"D","o","c","u","m","e","n","t"," ","n","o","t"," ","f","o","u","n","d">>
NeedleNotVectorized == <<"n","o","t"," ","b","e","e","n"," ","v","e","c","t","o","r","i","z","e","d">>
NeedleNotProcessed == <<"n","o","t"," ","b","e","e","n"," ","p","r","o","c","e","s","s","e","d">>
NeedleNoChunks == <<"N","o"," ","c","h","u","n","k","s"," ","f","o","u","n","d">>
NeedleNoDocumentChunks == <<"N","o"," ","d","o","c","u","m","e","n","t"," ","c","h","u","n","k","s"," ","f","o","u","n","d">>

\* error.message: the fragments of a message, joined
messageText(msg) == flatten([i \in DOMAIN msg |-> FragmentText(msg[i])])

\* the texts the controller answers with
QuestionRequired ==
    <<"Question is required">>
InvalidIdAnswer ==
    <<"The document ID you provided appears to be invalid. Please check that you're using a valid document ID.">>
TroubleAnswer ==
    <<"I'm having trouble retrieving information from this document.">>
NotFoundAnswer ==
    <<"I couldn't find the document you're referring to. Please check that the document ID is correct.">>
NotProcessedAnswer ==
    <<"This document hasn't been processed for questions yet. Please process the document first using the /process endpoint.">>
NoContentAnswer ==
    <<"I couldn't find any content in this document. The document may be empty or may not have been properly processed.">>
UnexpectedAnswer ==
    <<"I encountered an unexpected error while trying to answer your question. Please try again or contact support if the issue persists.">>

\* a controller that reports every error with the same text, to measure what
\* FailuresHaveTheirOwnAnswer owes to the tests of lines 189-195
userMessageGeneric(message) == TroubleAnswer

\* askQuestion 187-195: the text for the error askQuestion of the service
\* threw
userMessage(message) ==
    IF includes(message, NeedleNotFound) THEN NotFoundAnswer
    ELSE IF includes(message, NeedleNotVectorized) \/ includes(message, NeedleNotProcessed)
    THEN NotProcessedAnswer
    ELSE IF includes(message, NeedleNoChunks) \/ includes(message, NeedleNoDocumentChunks)
    THEN NoContentAnswer
    ELSE TroubleAnswer

\* what findRelevantChunks wraps in "Failed to find relevant chunks: "
FindCauses ==
    {<<MongoError>>, <<DbError>>, <<"Document not found">>,
     <<"Document has not been vectorized">>, <<"Invalid regular expression">>}
    \cup {<<"No chunks found for document ID: ", d>> : d \in DocIds}

\* what the last resort of askQuestion fails with
LastResortCauses ==
    {<<DbError>>, <<"No documents found in database">>, <<"Invalid regular expression">>}
    \cup {<<"No chunks found for document ID: ", d>> : d \in DocIds}

\* the messages of the errors askQuestion of the service throws
ServiceMessages ==
    {<<"Failed to process question: ">> \o c :
        c \in {<<MongoError>>, <<LlmError>>, <<"Document has not been processed for Q&A yet">>}
               \cup {<<"Document not found with ID: ", d>> : d \in DocIds}}
    \cup {<<"Failed to process question: ", "Unable to retrieve relevant content: ",
             "Failed to find relevant chunks: ">> \o f \o <<". Fallback also failed: ">> \o l :
            f \in FindCauses, l \in LastResortCauses}

\* userMessage for each of them, computed once
UserMessages == [m \in ServiceMessages |-> userMessage(messageText(m))]

\* res.status(...).json({status, msg, data}): the status and the data
respond(tk, http, data, answer, sources) ==
    [tk EXCEPT !.pc = "responded",
               !.result = [tk.result EXCEPT !.http = http, !.data = data,
                                            !.answer = answer, !.sources = sources]]

\* a controller that answers a request without question like one whose
\* document id is invalid, to measure what AskRespondsByRequest owes to the
\* test of line 153
questionMissingAnswered(tk) == respond(tk, 200, "answer", InvalidIdAnswer, <<>>)

\* askQuestion 153-159: if (!question) return res.status(400)...
questionMissing(tk) == respond(tk, 400, "null", <<>>, <<>>)

\* bodies of a request without a usable question: no body at all (req.body
\* undefined), or a body without question
NoQuestion == {"nobody", "missing"}

\* askQuestion 149-171 and 209-223: the request is answered before the service
\* is called.  Destructuring req.body throws when there is no body, which the
\* outer catch answers; then the question is tested, then the document id.
RejectAsk(t, d, q) ==
    /\ tasks[t].op = "idle"
    /\ q \in NoQuestion \/ d = "bad"
    /\ LET tk == [IdleTask EXCEPT !.op = "ask", !.q = q] IN
       Set(t, IF q = "nobody" THEN respond(tk, 200, "answer", UnexpectedAnswer, <<>>)
              ELSE IF q = "missing" THEN questionMissing(tk)
              ELSE respond(tk, 200, "answer", InvalidIdAnswer, <<>>))
    /\ UNCHANGED <<docs, table, rows, env>>
    /\ UNCHANGED <<evars, pool>>

\* askQuestion 173-207: the service has returned or thrown
Respond(t) ==
    /\ tasks[t].op = "ask"
    /\ tasks[t].pc = "done"
    /\ LET tk == tasks[t] IN
       Set(t, IF tk.result.status = "returned"
              THEN respond(tk, 200, "answer", tk.result.answer, tk.result.sources)
              ELSE respond(tk, 200, "answer", UserMessages[tk.result.msg], <<>>))
    /\ UNCHANGED <<docs, table, rows, env>>
    /\ UNCHANGED <<evars, pool>>

\* the caller has taken the outcome, an ask request has been answered; the
\* task may serve another request
Finish(t) ==
    /\ tasks[t].pc = IF tasks[t].op = "ask" THEN "responded" ELSE "done"
    /\ Set(t, IdleTask)
    /\ UNCHANGED <<docs, table, rows, env>>
    /\ UNCHANGED <<evars, pool>>

-----------------------------------------------------------------------------
(* pgPool (dbConnect.js 5-21): new Pool({max, connectionTimeoutMillis}) *)

\* callers of pgPool.connect(): more than the pool has clients
Callers == 1..(PoolMax + 3)

EmptyPool == [out |-> {}, queue |-> <<>>, failed |-> {}]

\* a pool without a maximum, to measure what PoolBoundedWaitMayFail owes to
\* "max"
poolUnbounded(p) == TRUE

\* max: the pool hands out a client only while fewer than max are checked out
poolHasRoom(p) == Cardinality(p.out) < PoolMax

\* pgPool.connect(): a client is checked out, or the request waits in the
\* queue of the pool
PoolConnect(c) ==
    /\ c \notin pool.out \cup pool.failed \cup Range(pool.queue)
    /\ pool' = IF poolHasRoom(pool)
               THEN [pool EXCEPT !.out = @ \cup {c}]
               ELSE [pool EXCEPT !.queue = Append(@, c)]
    /\ UNCHANGED <<evars, pvars>>

\* client.release(): the client goes to the request that has waited longest,
\* or back to the pool
PoolRelease(c) ==
    /\ c \in pool.out
    /\ pool' = IF pool.queue # <<>>
               THEN [pool EXCEPT !.out = (@ \ {c}) \cup {Head(pool.queue)},
                                 !.queue = Tail(@)]
               ELSE [pool EXCEPT !.out = @ \ {c}]
    /\ UNCHANGED <<evars, pvars>>

\* a pool without connectionTimeoutMillis: a waiting request is never taken
\* off the queue, to measure what WaitingRequestsLeaveQueue owes to the timer
PoolNeverTimesOut(c) ==
    /\ FALSE
    /\ UNCHANGED <<pool, evars, pvars>>

\* connectionTimeoutMillis: a request that has waited that long is taken off
\* the queue and rejected
PoolTimeout(c) ==
    /\ c \in Range(pool.queue)
    /\ pool' = [pool EXCEPT !.queue = filter(@, LAMBDA x : x # c),
                            !.failed = @ \cup {c}]
    /\ UNCHANGED <<evars, pvars>>

\* the caller has handled the rejection (the catch blocks of the services)
PoolRejected(c) ==
    /\ c \in pool.failed
    /\ pool' = [pool EXCEPT !.failed = @ \ {c}]
    /\ UNCHANGED <<evars, pvars>>

PoolNext ==
    \/ \E c \in Callers : PoolConnect(c)
    \/ \E c \in Callers : PoolRelease(c)
    \/ \E c \in Callers : PoolTimeout(c)
    \/ \E c \in Callers : PoolRejected(c)

-----------------------------------------------------------------------------
(* deleteDocument (part_004 309-352) *)

\* document.isDeleted = true; await document.save(): nothing else of the
\* document changes, and no row of the table is touched
softDeleted(doc) == [doc EXCEPT !.isDeleted = TRUE]

\* deleteDocument: 404 without a change when the document is not found or
\* already deleted; otherwise the soft delete, and 200
DeleteDocument(d) ==
    /\ docs[d].exists /\ ~docs[d].isDeleted
    /\ docs' = [docs EXCEPT ![d] = softDeleted(@)]
    /\ UNCHANGED <<table, rows, tasks, env>>
    /\ UNCHANGED <<evars, pool>>

-----------------------------------------------------------------------------
(* Specifications *)

TopKs == 1..MaxTopK

\* the service has started: no document, no request, the table absent, as
\* it should be, or with the columns of an older schema
Init ==
    /\ docs = [d \in DocIds |-> NoDoc]
    /\ table \in {"absent", "ok", "legacy"}
    /\ rows = <<>>
    /\ tasks = [t \in Tasks |-> IdleTask]
    /\ env \in [embeddingModel : {"ollama", "openai"}, openaiModel : OpenAIModels,
               ingests : {0}, leaked : {0}]
    /\ env.embeddingModel = "ollama" => env.openaiModel = "text-embedding-3-small"
    /\ e_call = "embedQuery"
    /\ e_texts = <<>>
    /\ e_k = 1
    /\ e_pc = "idle"
    /\ e_text = "empty"
    /\ e_idx = 1
    /\ e_log = <<>>
    /\ e_emb = <<>>
    /\ e_ret = <<>>
    /\ e_out = <<>>
    /\ pool = EmptyPool

\* embedQuery(text) or embedDocuments(texts) is entered; no request is being
\* served
EmbedInit ==
    /\ e_call \in {"embedQuery", "embedDocuments"}
    /\ e_texts \in (IF e_call = "embedQuery" THEN {<<>>} ELSE DocTexts)
    /\ e_k = 1
    /\ e_pc = IF e_call = "embedQuery" THEN "generate" ELSE "loop"
    /\ e_text \in (IF e_call = "embedQuery" THEN EmbedTexts ELSE {"empty"})
    /\ e_idx = 1
    /\ e_log = <<>>
    /\ e_emb = <<>>
    /\ e_ret = <<>>
    /\ e_out = <<>>
    /\ pool = EmptyPool
    /\ docs = [d \in DocIds |-> NoDoc]
    /\ table = "absent"
    /\ rows = <<>>
    /\ tasks = [t \in Tasks |-> IdleTask]
    /\ env = [embeddingModel |-> "ollama", openaiModel |-> "text-embedding-3-small",
              ingests |-> 0, leaked |-> 0]

PipeNext ==
    \/ \E d \in DocIds : \E u \in UploadsOf(d) : Upload(d, u)
    \/ \E t \in IngestTasks, d \in DocIds : StartProcess(t, d)
    \/ \E t \in Tasks : TestConnection(t)
    \/ \E t \in Tasks : SyncAndSplit(t)
    \/ \E t \in Tasks : EmbedChunks(t)
    \/ \E t \in Tasks : AcquireForInsert(t)
    \/ \E t \in Tasks : InsertChunk(t)
    \/ \E t \in Tasks : SaveVectorized(t)
    \/ \E t \in QueryTasks, d \in DocIds, q \in Questions, k \in TopKs : StartFind(t, d, q, k)
    \/ \E t \in QueryTasks, d \in DocIds, q \in Questions, k \in TopKs : StartAsk(t, d, q, k)
    \/ \E t \in Tasks : FindLookup(t)
    \/ \E t \in Tasks : FindConnect(t)
    \/ \E t \in Tasks : FindTier1(t)
    \/ \E t \in Tasks : FindEmbed(t)
    \/ \E t \in Tasks : FindVector(t)
    \/ \E t \in Tasks : LastResortConnect(t)
    \/ \E t \in Tasks : LastResortQuery(t)
    \/ \E t \in Tasks : CallLLM(t)
    \/ \E t \in QueryTasks, d \in DocIds \cup {"bad"}, q \in Questions \cup NoQuestion :
          RejectAsk(t, d, q)
    \/ \E t \in Tasks : Respond(t)
    \/ \E t \in Tasks : Finish(t)

Spec == Init /\ [][PipeNext]_vars

SpecEmbed == EmbedInit /\ [][EmbedNext]_vars

\* the rows of a document whose chunks come back from the lookup in any order
\* (the SELECT has no ORDER BY), repeated chunks included
RankRows ==
    UNION {[1..n -> {[content |-> c, metadata |-> chunkMetadata("d1", "notes"),
                      embedding |-> [len |-> D, zero |-> FALSE]] : c \in Contents}]
           : n \in 0..MaxRows}

\* both documents are vectorized, the table holds rows of d1 only; no request
\* is being served
RankInit ==
    /\ docs = [d \in DocIds |->
                 [exists |-> TRUE, upload |-> IF d = "d1" THEN "notes" ELSE "named",
                  vectorized |-> TRUE, writes |-> 1, isDeleted |-> FALSE]]
    /\ table = "ok"
    /\ rows \in RankRows
    /\ tasks = [t \in Tasks |-> IdleTask]
    /\ env = [embeddingModel |-> "ollama", openaiModel |-> "text-embedding-3-small",
              ingests |-> 0, leaked |-> 0]
    /\ e_call = "embedQuery"
    /\ e_texts = <<>>
    /\ e_k = 1
    /\ e_pc = "idle"
    /\ e_text = "empty"
    /\ e_idx = 1
    /\ e_log = <<>>
    /\ e_emb = <<>>
    /\ e_ret = <<>>
    /\ e_out = <<>>
    /\ pool = EmptyPool

\* findRelevantChunks called on a table that does not change
RankNext ==
    \/ \E t \in QueryTasks, d \in DocIds, q \in Questions, k \in TopKs : StartFind(t, d, q, k)
    \/ \E t \in QueryTasks : FindConnect(t)
    \/ \E t \in QueryTasks : FindTier1(t)
    \/ \E t \in QueryTasks : FindEmbed(t)
    \/ \E t \in QueryTasks : FindVector(t)
    \/ \E t \in QueryTasks : Finish(t)

SpecRank == RankInit /\ [][RankNext]_vars

\* no document is stored; both requests are free to ingest
FlagInit ==
    /\ docs = [d \in DocIds |-> NoDoc]
    /\ table \in {"ok", "legacy"}
    /\ rows = <<>>
    /\ tasks = [t \in Tasks |-> IdleTask]
    /\ env = [embeddingModel |-> "ollama", openaiModel |-> "text-embedding-3-small",
              ingests |-> 0, leaked |-> 0]
    /\ e_call = "embedQuery"
    /\ e_texts = <<>>
    /\ e_k = 1
    /\ e_pc = "idle"
    /\ e_text = "empty"
    /\ e_idx = 1
    /\ e_log = <<>>
    /\ e_emb = <<>>
    /\ e_ret = <<>>
    /\ e_out = <<>>
    /\ pool = EmptyPool

\* uploads and ingestions only, any request ingesting any document: two
\* processDocument requests may run at once, for the same document too
FlagNext ==
    \/ \E d \in DocIds : \E u \in UploadsOf(d) : Upload(d, u)
    \/ \E t \in Tasks, d \in DocIds : StartProcess(t, d)
    \/ \E t \in Tasks : TestConnection(t)
    \/ \E t \in Tasks : SyncAndSplit(t)
    \/ \E t \in Tasks : EmbedChunks(t)
    \/ \E t \in Tasks : AcquireForInsert(t)
    \/ \E t \in Tasks : InsertChunk(t)
    \/ \E t \in Tasks : SaveVectorized(t)
    \/ \E t \in Tasks : Finish(t)

SpecFlag == FlagInit /\ [][FlagNext]_vars

\* the rows of two ingested documents, or of the first only
DeleteRows ==
    LET r(c, doc, u) == [content |-> c, metadata |-> chunkMetadata(doc, u),
                         embedding |-> [len |-> D, zero |-> FALSE]]
    IN  {<<r("C_inv", "d1", "notes"), r("C_ship", "d1", "notes"), r("C_memo", "d2", "named")>>,
         <<r("C_inv", "d1", "notes"), r("C_ship", "d1", "notes")>>}

\* both documents are uploaded and vectorized, none deleted; no request is
\* being served
DeleteInit ==
    /\ docs = [d \in DocIds |->
                 [exists |-> TRUE, upload |-> IF d = "d1" THEN "notes" ELSE "named",
                  vectorized |-> TRUE, writes |-> 1, isDeleted |-> FALSE]]
    /\ table = "ok"
    /\ rows \in DeleteRows
    /\ tasks = [t \in Tasks |-> IdleTask]
    /\ env = [embeddingModel |-> "ollama", openaiModel |-> "text-embedding-3-small",
              ingests |-> 0, leaked |-> 0]
    /\ e_call = "embedQuery"
    /\ e_texts = <<>>
    /\ e_k = 1
    /\ e_pc = "idle"
    /\ e_text = "empty"
    /\ e_idx = 1
    /\ e_log = <<>>
    /\ e_emb = <<>>
    /\ e_ret = <<>>
    /\ e_out = <<>>
    /\ pool = EmptyPool

\* documents are deleted while questions are asked
DeleteNext ==
    \/ \E d \in DocIds : DeleteDocument(d)
    \/ \E t \in QueryTasks, d \in DocIds, q \in Questions, k \in TopKs : StartAsk(t, d, q, k)
    \/ \E t \in QueryTasks : FindLookup(t)
    \/ \E t \in QueryTasks : FindConnect(t)
    \/ \E t \in QueryTasks : FindTier1(t)
    \/ \E t \in QueryTasks : FindEmbed(t)
    \/ \E t \in QueryTasks : FindVector(t)
    \/ \E t \in QueryTasks : LastResortConnect(t)
    \/ \E t \in QueryTasks : LastResortQuery(t)
    \/ \E t \in QueryTasks : CallLLM(t)
    \/ \E t \in QueryTasks : Respond(t)
    \/ \E t \in QueryTasks : Finish(t)

SpecDelete == DeleteInit /\ [][DeleteNext]_vars

\* the pool is created; no request is being served
PoolInit ==
    /\ pool = EmptyPool
    /\ docs = [d \in DocIds |-> NoDoc]
    /\ table = "absent"
    /\ rows = <<>>
    /\ tasks = [t \in Tasks |-> IdleTask]
    /\ env = [embeddingModel |-> "ollama", openaiModel |-> "text-embedding-3-small",
              ingests |-> 0, leaked |-> 0]
    /\ e_call = "embedQuery"
    /\ e_texts = <<>>
    /\ e_k = 1
    /\ e_pc = "idle"
    /\ e_text = "empty"
    /\ e_idx = 1
    /\ e_log = <<>>
    /\ e_emb = <<>>
    /\ e_ret = <<>>
    /\ e_out = <<>>

SpecPool == PoolInit /\ [][PoolNext]_vars

\* the pool with its timers: the timer of a waiting request
\* (connectionTimeoutMillis) fires unless the request is served first.
\* Nothing is assumed about when, or whether, a request releases its client.
SpecPoolLive ==
    /\ PoolInit
    /\ [][PoolNext]_vars
    /\ \A c \in Callers : WF_vars(PoolTimeout(c))

-----------------------------------------------------------------------------
(* Properties *)

\* C1: whatever the text and whatever each strategy does (a vector of any
\* length, an empty array, a missing field, a throw, the hashing fallback
\* returning or throwing), the vector embedQuery returns has exactly D numbers.
EmbedQueryHasDimension == e_pc = "done" => Len(e_ret) = D

\* C1 reached when a strategy answered with a vector that is neither empty nor
\* D long, and reached when every strategy and the hashing fallback failed
C1_Resized == e_pc = "done" /\ Len(e_emb) \notin {0, D} /\ Len(e_ret) = D


\* C2 as stated: askQuestion never raises to its caller; every failure of the
\* registry, the retriever, the last resort or the language model ends in a
\* returned {answer, sources}.
AskNeverRaises ==
    \A t \in Tasks :
        tasks[t].op = "ask" /\ tasks[t].pc = "done" => tasks[t].result.status = "returned"

\* C2 (amended): askQuestion raises "Failed to process question: ..." when the
\* registry lookup fails, the document is unknown or not vectorized, or the
\* retriever and the last resort both fail; it never raises once the language
\* model has been called, and what it returns then is an answer with the
\* retrieved chunks as sources.
AskRaisesBeforeModelOnly ==
    \A t \in Tasks :
        LET tk == tasks[t] IN
        tk.op = "ask" /\ tk.pc = "done" =>
            \/ /\ tk.result.status = "raised"
               /\ \A i \in DOMAIN tk.calls : tk.calls[i] # "llm"
               /\ tk.result.msg[1] = "Failed to process question: "
               /\ tk.result.msg[2] \in {MongoError, "Document not found with ID: ",
                                        "Document has not been processed for Q&A yet",
                                        "Unable to retrieve relevant content: "}
            \/ /\ tk.result.status = "returned"
               /\ tk.calls # <<>> /\ tk.calls[Len(tk.calls)] = "llm"
               /\ tk.result.sources = toSources(tk.found)

\* C2 reached: the retriever and the last resort both failed and askQuestion
\* raised
C2_BothFailed ==
    \E t \in Tasks :
        /\ tasks[t].op = "ask" /\ tasks[t].pc = "done"
        /\ tasks[t].result.status = "raised"
        /\ Len(tasks[t].result.msg) >= 2
        /\ tasks[t].result.msg[2] = "Unable to retrieve relevant content: "

\* C3: vectorized changes only from false to true, only in the save of an
\* ingestion of that document all of whose chunks have been inserted; a step
\* in which an ingestion fails leaves every flag as it was.
VectorizedOnlyAfterAllInserts ==
    [][ /\ \A d \in DocIds :
              docs'[d].vectorized # docs[d].vectorized =>
                  /\ docs'[d].vectorized
                  /\ \E t \in Tasks :
                        /\ tasks[t].op = "process" /\ tasks[t].doc = d
                        /\ tasks[t].pc = "p_save"
                        /\ tasks[t].i = Len(tasks[t].chunks)
                        /\ tasks'[t].result.status = "returned"
        /\ \A t \in Tasks :
              (/\ tasks[t].op = "process" /\ tasks[t].pc # "done"
               /\ tasks'[t].result.status = "raised")
              => \A d \in DocIds : docs'[d].vectorized = docs[d].vectorized
      ]_vars

\* C3 reached: the ingestion of d1 failed after a first insert and left d1 not
\* vectorized with its row in the table; the ingestion of d2 completed
C3_PartialAndComplete ==
    /\ ~docs["d1"].vectorized
    /\ \E i \in DOMAIN rows : rows[i].metadata.documentId = "d1"
    /\ docs["d2"].vectorized
    /\ \E t \in Tasks : /\ tasks[t].op = "process" /\ tasks[t].doc = "d2"
                        /\ tasks[t].result.status = "returned"

FindChecksRegistryFirst ==
    [][ \A t \in Tasks :
          LET a == tasks[t]
              b == tasks'[t]
              err == IF b.op = "find" THEN b.result.msg ELSE b.findErr
              lookup == \/ a.op = "idle" /\ b.op = "find"
                        \/ a.pc = "f_lookup" /\ b.pc # "f_lookup"
          IN  lookup /\ ~(docs[b.doc].exists /\ docs[b.doc].vectorized) =>
                 /\ b.pc \in {"done", "a_lr_connect"}
                 /\ b.calls = <<>>
                 /\ b.op = "find" => b.result.status = "raised"
                 /\ err \in {<<"Failed to find relevant chunks: ", MongoError>>,
                             IF docs[b.doc].exists
                             THEN <<"Failed to find relevant chunks: ",
                                    "Document has not been vectorized">>
                             ELSE <<"Failed to find relevant chunks: ", "Document not found">>}
      ]_vars

\* C5 reached: a request for a known, not vectorized document was refused
C5_NotVectorized ==
    \E t \in Tasks :
        /\ tasks[t].op = "find" /\ tasks[t].pc = "done"
        /\ tasks[t].result.msg = <<"Failed to find relevant chunks: ",
                                   "Document has not been vectorized">>
        /\ docs[tasks[t].doc].exists
        /\ tasks[t].calls = <<>>


\* C6: for a document none of whose rows are in the table, the vector tier of
\* findRelevantChunks always ends in "No chunks found for document ID: X"
\* (wrapped by the outer catch), whether the embedding of the question throws
\* or is all zero, the similarity query throws or returns nothing, or the
\* post-filter keeps nothing; no other error leaves the vector tier.
VectorTierEndsInNoChunks ==
    [][ \A t \in Tasks :
          LET a == tasks[t]
              b == tasks'[t]
              err == IF b.op = "find" THEN b.result.msg ELSE b.findErr
          IN  (/\ a.pc \in {"f_embed", "f_vector"}
               /\ b.pc \notin {"f_embed", "f_vector"}
               /\ directLookup(rows, a.doc) = <<>>)
              => /\ err = <<"Failed to find relevant chunks: ",
                            "No chunks found for document ID: ", a.doc>>
                 /\ b.pc \in {"done", "a_lr_connect"}
                 /\ b.op = "find" => b.result.status = "raised"
      ]_vars

\* C6 reached: the similarity query was made and the request ended in
\* "No chunks found"
C6_AfterVectorQuery ==
    \E t \in Tasks :
        /\ tasks[t].op = "find" /\ tasks[t].pc = "done"
        /\ tasks[t].calls = <<"connect", "query", "embed", "query">>
        /\ tasks[t].result.msg = <<"Failed to find relevant chunks: ",
                                   "No chunks found for document ID: ", tasks[t].doc>>

\* C7 as stated: for a known, vectorized document none of whose rows match,
\* findRelevantChunks returns an empty list and does not raise.
FindReturnsEmptyWhenNoMatch ==
    [][ \A t \in Tasks :
          LET a == tasks[t]
              b == tasks'[t]
          IN  (/\ a.op = "find" /\ a.pc = "f_vector" /\ b.pc = "done"
               /\ "database error" \notin Range(b.result.msg)
               /\ directLookup(rows, a.doc) = <<>>)
              => b.result.status = "returned" /\ b.result.sources = <<>>
      ]_vars

\* C7 (amended): findRelevantChunks never returns an empty list (topK >= 1):
\* it returns between 1 and topK chunks, or it raises; for a known, vectorized
\* document without rows it raises "No chunks found for document ID: X" or a
\* database error.
FindNeverReturnsEmpty ==
    \A t \in Tasks :
        LET tk == tasks[t] IN
        tk.op = "find" /\ tk.pc = "done" =>
            \/ /\ tk.result.status = "returned"
               /\ 1 <= Len(tk.result.sources) /\ Len(tk.result.sources) <= tk.topK
            \/ /\ tk.result.status = "raised"
               /\ tk.result.msg[1] = "Failed to find relevant chunks: "
               /\ tk.result.sources = <<>>
               /\ "embed" \in Range(tk.calls) =>
                     tk.result.msg[2] = "No chunks found for document ID: "

\* C7 reached: a vectorized document without any chunk was asked for and the
\* request raised "No chunks found"
C7_NoRowsRaises ==
    \E t \in Tasks :
        /\ tasks[t].op = "find" /\ tasks[t].pc = "done"
        /\ docs[tasks[t].doc].vectorized /\ docs[tasks[t].doc].upload = "blank"
        /\ tasks[t].result.status = "raised"
        /\ tasks[t].result.msg[2] = "No chunks found for document ID: "

\* C8 as stated: when the retriever has failed and the last-resort query
\* yields no chunk of the document, askQuestion returns the fixed "couldn't
\* find relevant information" answer with no sources.
LastResortEmptyGivesFixedAnswer ==
    [][ \A t \in Tasks :
          LET a == tasks[t]
              b == tasks'[t]
          IN  (/\ a.pc = "a_lr_query" /\ b.pc = "done"
               /\ b.result.msg[Len(b.result.msg)] # DbError
               /\ lastResortFilter(likeLookup(rows, a.doc), a.doc) = <<>>)
              => /\ b.result.status = "returned"
                 /\ b.result.answer = CouldNotFind
                 /\ b.result.sources = <<>>
      ]_vars

\* C8 (amended): when the retriever has failed and the last-resort query
\* yields no chunk of the document, askQuestion raises "Failed to process
\* question: Unable to retrieve relevant content: <retriever error>. Fallback
\* also failed: <cause>", the cause being "No documents found in database",
\* "No chunks found for document ID: X" or the error of the query.
LastResortEmptyRaises ==
    [][ \A t \in Tasks :
          LET a == tasks[t]
              b == tasks'[t]
          IN  (/\ a.pc = "a_lr_query" /\ b.pc # "a_lr_query"
               /\ lastResortFilter(likeLookup(rows, a.doc), a.doc) = <<>>)
              => /\ b.pc = "done"
                 /\ b.result.status = "raised"
                 /\ b.result.sources = <<>> /\ b.result.answer = <<>>
                 /\ \E cause \in {<<DbError>>, <<"No documents found in database">>,
                                  <<"No chunks found for document ID: ", a.doc>>} :
                       b.result.msg = <<"Failed to process question: ",
                                        "Unable to retrieve relevant content: ">>
                                      \o a.findErr \o <<". Fallback also failed: ">> \o cause
      ]_vars

\* C8 reached: the last-resort query ran and found no row
C8_NothingFound ==
    \E t \in Tasks :
        /\ tasks[t].op = "ask" /\ tasks[t].pc = "done"
        /\ tasks[t].result.status = "raised"
        /\ tasks[t].result.msg[Len(tasks[t].result.msg)] = "No documents found in database"

\* C9: when the language model throws, askQuestion returns the answer of
\* _generateFallbackAnswer on the retrieved chunks with exactly those chunks
\* as sources; the model call is the last call of the request and the only
\* one to the model; for "who wrote this" the who-heuristic gives the names
\* of the chunks when they hold one ("Alice Smith." for the invoice chunk) and
\* passes to the generic extraction when they hold none.
ModelFailureGivesHeuristicAnswer ==
    [][ \A t \in Tasks :
          LET a == tasks[t]
              b == tasks'[t]
              context == join([i \in DOMAIN a.found |-> TextOf(a.found[i].pageContent)], <<" ">>)
              hasName == \E i \in DOMAIN context : namePattern(context, i) > 0
          IN  a.pc = "a_llm" /\ b.pc = "done" /\ b.result.by # "llm" =>
                 /\ b.result.status = "returned"
                 /\ b.result.sources = toSources(a.found)
                 /\ b.calls = Append(a.calls, "llm")
                 /\ Cardinality({i \in DOMAIN b.calls : b.calls[i] = "llm"}) = 1
                 /\ b.result.by \in {"what", "who", "when", "where", "generic", "first"}
                 /\ a.q = "Q_who" => b.result.by = IF hasName THEN "who" ELSE "first"
                 /\ (a.q = "Q_who" /\ a.doc = "d1" /\ hasName) =>
                       b.result.answer = <<"A","l","i","c","e"," ","S","m","i","t","h",".">>
                 /\ (a.q = "Q_who" /\ ~hasName) =>
                       b.result.answer = TextOf(a.found[1].pageContent)
      ]_vars

\* C9 reached: the model threw on "who wrote this" and the who-heuristic
\* answered
C9_WhoAnswered ==
    \E t \in Tasks :
        /\ tasks[t].op = "ask" /\ tasks[t].pc = "done" /\ tasks[t].q = "Q_who"
        /\ tasks[t].result.by = "who"
        /\ tasks[t].result.answer = <<"A","l","i","c","e"," ","S","m","i","t","h",".">>

\* C10: the sources of every answer returned for document X with topK are at
\* most topK, each carries X in documentId, document_id or id of its metadata
\* and is a chunk of the text ingested for X, whichever of the direct lookup,
\* the vector search or the last resort found them.
SourcesBelongToDocument ==
    \A t \in Tasks :
        LET tk == tasks[t] IN
        tk.op = "ask" /\ tk.pc = "done" /\ tk.result.status = "returned" =>
            /\ Len(tk.result.sources) <= tk.topK
            /\ \A i \in DOMAIN tk.result.sources :
                  LET s == tk.result.sources[i] IN
                  /\ \/ s.metadata.documentId = tk.doc
                     \/ s.metadata.document_id = tk.doc
                     \/ s.metadata.id = tk.doc
                  /\ s.content \in Range(splitText(docs[tk.doc].upload))

\* C10 reached: the last resort answered while its query also matched a row of
\* another document
C10_LastResortFiltered ==
    \E t \in Tasks :
        /\ tasks[t].op = "ask" /\ tasks[t].pc = "done"
        /\ tasks[t].result.status = "returned"
        /\ tasks[t].findErr # <<>>
        /\ Len(tasks[t].result.sources) >= 1
        /\ \E i \in DOMAIN rows :
              /\ rows[i].metadata.documentId # tasks[t].doc
              /\ includes(metadataText(rows[i].metadata), idStr(tasks[t].doc))


-----------------------------------------------------------------------------
\* rows of the table tagged with document d
rowsOf(d) == {i \in DOMAIN rows : rows[i].metadata.documentId = d}

C12_OtherLengthRefused ==
    \E t \in Tasks :
        /\ env.embeddingModel = "openai" /\ env.openaiModel = "other"
        /\ tasks[t].op = "process" /\ tasks[t].pc = "done"
        /\ tasks[t].vectors # <<>> /\ tasks[t].vectors[1].len # D
        /\ tasks[t].result.status = "raised"


\* C13: embedQuery and embedDocuments never raise: whatever the text (a
\* string, the empty string, no string at all) and whatever each backend call
\* does (network error or timeout, body without the field, empty or wrong-size
\* array), the call is never left by an exception, embedQuery returns D
\* numbers and embedDocuments returns one vector of D numbers per text.
ProviderNeverRaises ==
    /\ e_pc # "raised"
    /\ e_pc = "done" => e_call = "embedQuery" /\ Len(e_ret) = D
    /\ e_pc = "returned" =>
          /\ e_call = "embedDocuments"
          /\ Len(e_out) = Len(e_texts)
          /\ \A i \in DOMAIN e_out : Len(e_out[i]) = D

\* C13 reached: embedDocuments has returned two vectors, the second of them
\* for a text on which every strategy and the hashing fallback threw
C13_ManyWithFailure ==
    /\ e_pc = "returned"
    /\ Len(e_out) = 2
    /\ Len(e_log) = NumMethods + 1
    /\ \A i \in DOMAIN e_log : e_log[i].outcome = "threw"


\* C14: when every strategy invoked by embedQuery has failed, the four backend
\* strategies throwing or returning an empty array and the hashing fallback
\* throwing, embedQuery returns D zeros.
AllFailedGivesZeros ==
    (/\ e_call = "embedQuery" /\ e_pc = "done"
     /\ Len(e_log) = NumMethods + 1
     /\ \A i \in DOMAIN e_log : e_log[i].outcome # "ok")
    => Len(e_ret) = D /\ AllZero(e_ret)

\* C14 reached: embedQuery has returned after a backend strategy returned an
\* empty array, the others threw and the hashing fallback threw
C14_EveryStrategyFailed ==
    /\ e_call = "embedQuery" /\ e_pc = "done"
    /\ Len(e_log) = NumMethods + 1
    /\ e_log[1].outcome = "empty"
    /\ \A i \in 2..(NumMethods + 1) : e_log[i].outcome = "threw"
    /\ AllZero(e_ret)


\* C15 as stated: embedQuery returns a vector of zeros only when the hashing
\* fallback threw; a call in which a strategy completed returns a vector with
\* a non-zero element.
ZerosOnlyWhenFallbackThrows ==
    (e_call = "embedQuery" /\ e_pc = "done" /\ AllZero(e_ret))
    => /\ Len(e_log) = NumMethods + 1
       /\ e_log[NumMethods + 1].method = "_generatePseudoEmbedding"
       /\ e_log[NumMethods + 1].outcome = "threw"

\* C15 reached: the text is the empty string, the four backend strategies
\* threw, the hashing fallback completed, and embedQuery returned D zeros
C15_EmptyTextGivesZeros ==
    /\ e_call = "embedQuery" /\ e_pc = "done" /\ e_text = "empty"
    /\ Len(e_log) = NumMethods + 1
    /\ \A i \in 1..NumMethods : e_log[i].outcome = "threw"
    /\ e_log[NumMethods + 1].outcome = "ok"
    /\ Len(e_ret) = D /\ AllZero(e_ret)


\* the order of the cascade as the specification gives it
StrategyOrder ==
    <<"_tryEmbeddingsEndpoint", "_tryEmbedEndpoint", "_tryChatCompletionEmbedding",
      "_tryCompletionEmbedding", "_generatePseudoEmbedding">>

\* C19: the strategies invoked for a text are a prefix of the fixed order
\* embeddings endpoint, embed endpoint, chat completion, completion, hashing
\* fallback; every strategy invoked before the last one threw or returned an
\* empty array, so none is invoked after one succeeded; and the vector that
\* goes on to be resized is the non-empty one of the last strategy invoked.
StrategiesInOrder ==
    /\ Len(e_log) <= Len(StrategyOrder)
    /\ \A k \in DOMAIN e_log : e_log[k].method = StrategyOrder[k]
    /\ \A k \in DOMAIN e_log : k < Len(e_log) => e_log[k].outcome # "ok"
    /\ e_pc = "resize" => /\ e_log # <<>>
                          /\ e_log[Len(e_log)].outcome = "ok"
                          /\ Len(e_emb) > 0
    /\ e_pc = "generate" => e_idx = Len(e_log) + 1
    /\ e_pc = "fallback" => Len(e_log) = NumMethods

\* C19 reached: the first strategy threw, the second returned an empty array,
\* the third succeeded, and embedQuery returned without invoking another
C19_ThirdStrategyWins ==
    /\ e_call = "embedQuery" /\ e_pc = "done"
    /\ Len(e_log) = 3
    /\ e_log[1].outcome = "threw"
    /\ e_log[2].outcome = "empty"
    /\ e_log[3].outcome = "ok"


\* C20: in findRelevantChunks, a request whose direct lookup returned at
\* least one row never calls the embedding model nor the similarity query:
\* after "connect" and the lookup's "query" its calls go on, if at all, with
\* the caller's last resort or language model.  A request that embeds the
\* question or queries by similarity had a direct lookup with zero rows.
Tier1SkipsVectorSearch ==
    \A t \in Tasks :
        LET tk == tasks[t] IN
        tk.op \in {"find", "ask"} =>
           /\ tk.tier1 # Undefined /\ tk.tier1 >= 1 =>
                 /\ "embed" \notin Range(tk.calls)
                 /\ tk.pc \notin {"f_embed", "f_vector"}
                 /\ tk.vec = NoVector
                 /\ Len(tk.calls) >= 2
                 /\ SubSeq(tk.calls, 1, 2) = <<"connect", "query">>
                 /\ Len(tk.calls) >= 3 => tk.calls[3] \in {"connect", "llm"}
           /\ ("embed" \in Range(tk.calls) \/ tk.pc \in {"f_embed", "f_vector"})
                 => tk.tier1 = 0

\* C20 reached: a findRelevantChunks request has returned the chunks of a
\* direct lookup with two rows, having called nothing but the lookup
C20_Tier1Answered ==
    \E t \in Tasks :
        /\ tasks[t].op = "find" /\ tasks[t].pc = "done"
        /\ tasks[t].tier1 = 2
        /\ tasks[t].result.status = "returned"
        /\ tasks[t].calls = <<"connect", "query">>


tiersExhausted(tk) ==
    /\ tk.result.status = "raised"
    /\ tk.findErr = <<"Failed to find relevant chunks: ",
                      "No chunks found for document ID: ", tk.doc>>

\* the service threw because the document is unknown
unknownDocument(tk) ==
    /\ tk.result.status = "raised"
    /\ tk.result.msg = <<"Failed to process question: ", "Document not found with ID: ", tk.doc>>

\* the service threw because the document is not vectorized
unvectorizedDocument(tk) ==
    /\ tk.result.status = "raised"
    /\ tk.result.msg = <<"Failed to process question: ",
                         "Document has not been processed for Q&A yet">>

\* C17 as stated: an ask request for an unknown document is answered with the
\* "couldn't find the document" text, one for a document that is not
\* vectorized with the "process the document first" text, and one for which
\* both retrieval tiers were exhausted with the "couldn't find relevant
\* information" text.
ExhaustedTiersGetCouldNotFind ==
    \A t \in Tasks :
        LET tk == tasks[t] IN
        (tk.op = "ask" /\ tk.pc = "responded") =>
           /\ unknownDocument(tk) => tk.result.answer = NotFoundAnswer
           /\ unvectorizedDocument(tk) => tk.result.answer = NotProcessedAnswer
           /\ tiersExhausted(tk) => tk.result.answer = CouldNotFind

\* C17 (amended): an ask request for an unknown document is answered with the
\* "couldn't find the document" text, one for a document that is not
\* vectorized with the "process the document first" text, one for which both
\* retrieval tiers were exhausted and the last resort failed with the
\* "couldn't find any content in this document" text, and none of the three
\* texts answers a failure of another kind: the third is given only when the
\* retriever or the last resort found no chunk of the document.  Failures of
\* the database or the registry get the "having trouble" text, and no failure
\* is answered with the "couldn't find relevant information" text.
FailuresHaveTheirOwnAnswer ==
    \A t \in Tasks :
        LET tk == tasks[t]
            a  == tk.result.answer
            m  == tk.result.msg
        IN  (tk.op = "ask" /\ tk.pc = "responded" /\ tk.result.status = "raised") =>
               /\ unknownDocument(tk) => a = NotFoundAnswer
               /\ unvectorizedDocument(tk) => a = NotProcessedAnswer
               /\ tiersExhausted(tk) => a = NoContentAnswer
               /\ a = NotFoundAnswer => unknownDocument(tk)
               /\ a = NotProcessedAnswer => unvectorizedDocument(tk)
               /\ a = NoContentAnswer => "No chunks found for document ID: " \in Range(m)
               /\ a \in {NotFoundAnswer, NotProcessedAnswer, NoContentAnswer, TroubleAnswer}
               /\ a = TroubleAnswer =>
                     /\ ~unknownDocument(tk) /\ ~unvectorizedDocument(tk) /\ ~tiersExhausted(tk)
                     /\ \E i \in DOMAIN m : m[i] \in {DbError, MongoError, "Invalid regular expression"}
               /\ a # CouldNotFind

\* C17 reached: both tiers were exhausted, the last resort found no row, and
\* the request was answered with the "couldn't find any content" text
C17_ExhaustedAnswered ==
    \E t \in Tasks :
        /\ tasks[t].op = "ask" /\ tasks[t].pc = "responded"
        /\ tiersExhausted(tasks[t])
        /\ "No documents found in database" \in Range(tasks[t].result.msg)
        /\ tasks[t].result.answer = NoContentAnswer


\* C18 as stated: the pool never has more clients checked out than its
\* maximum, and a request made while the pool is exhausted waits in the queue
\* until a client is released: no request is rejected.
PoolQueuesNeverFails ==
    /\ Cardinality(pool.out) <= PoolMax
    /\ pool.failed = {}

\* C18 (amended): the pool never has more clients checked out than its
\* maximum; requests wait only while the pool is exhausted; a caller holds a
\* client, waits once, or was rejected, never two of these; and a waiting
\* request can be rejected (after connectionTimeoutMillis) instead of being
\* served.
PoolBoundedWaitMayFail ==
    /\ Cardinality(pool.out) <= PoolMax
    /\ pool.queue # <<>> => Cardinality(pool.out) = PoolMax
    /\ \A i, j \in DOMAIN pool.queue : pool.queue[i] = pool.queue[j] => i = j
    /\ pool.out \cap Range(pool.queue) = {}
    /\ pool.failed \cap (pool.out \cup Range(pool.queue)) = {}

\* C18 reached: the pool is exhausted, a request waits, and another request
\* that waited has been rejected
C18_WaitingRequestRejected ==
    /\ Cardinality(pool.out) = PoolMax
    /\ pool.queue # <<>>
    /\ pool.failed # {}


\* the number of places of a lowercased chunk at which a term occurs, summed
\* over the terms of a question longer than two characters
OccurrenceScore ==
    [q \in Questions, c \in Contents |->
        LET terms == queryTerms(TextOf(q))
            lower == toLowerCase(TextOf(c))
        IN  SumSeq([k \in DOMAIN terms |->
                Cardinality({i \in DOMAIN lower : OccursAt(lower, terms[k], i)})])]

LookupLimit == MaxRows - 1

\* C22: the direct lookup of findRelevantChunks returns, and the scoring
\* processes, at most LookupLimit rows however many rows carry the document.
Tier1LookupBounded ==
    \A t \in QueryTasks :
        tasks[t].tier1 # Undefined => tasks[t].tier1 <= LookupLimit

\* C22 reached: a request whose lookup returned every row of a document with
\* more rows than the bound, all of them scored
C22_AllRowsScored ==
    \E t \in QueryTasks :
        /\ tasks[t].op = "find" /\ tasks[t].pc = "done"
        /\ tasks[t].result.status = "returned"
        /\ Len(directLookup(rows, tasks[t].doc)) > LookupLimit
        /\ tasks[t].tier1 = Len(directLookup(rows, tasks[t].doc))
        /\ tasks[t].q = "Q_who"


\* what findRelevantChunks throws when neither tier gave a chunk
NoChunksFoundError(d) ==
    <<"Failed to find relevant chunks: ", "No chunks found for document ID: ", d>>

\* a row of the requested document by one of the three metadata keys
taggedWith(metadata, d) ==
    \/ idStr(metadata.documentId) = idStr(d)
    \/ idStr(metadata.document_id) = idStr(d)
    \/ idStr(metadata.id) = idStr(d)

\* C23: in the vector tier of findRelevantChunks an all-zero embedding of the
\* question issues no similarity query and the call fails with "No chunks
\* found"; an embedding with a non-zero element issues the similarity query
\* with limit topK * 2, and of its rows only those of the requested document,
\* at most topK of them, are returned.
VectorTierQueriesAndFilters ==
    \A t \in QueryTasks :
        LET tk      == tasks[t]
            queried == tk.limit # Undefined
        IN  /\ (tk.vec # NoVector /\ tk.vec.zero) =>
                  /\ ~queried /\ tk.matched = Undefined
                  /\ SubSeq(tk.calls, 1, 3) = <<"connect", "query", "embed">>
                  /\ Len(tk.calls) > 3 => tk.calls[4] = "connect"
                  /\ IF tk.op = "find"
                     THEN /\ tk.pc = "done" /\ tk.result.status = "raised"
                          /\ tk.result.msg = NoChunksFoundError(tk.doc)
                          /\ Len(tk.calls) = 3
                     ELSE tk.findErr = NoChunksFoundError(tk.doc)
            /\ (tk.vec # NoVector /\ ~tk.vec.zero /\ tk.pc # "f_vector") => queried
            /\ queried =>
                  /\ tk.vec # NoVector /\ ~tk.vec.zero
                  /\ tk.limit = tk.topK * 2
                  /\ SubSeq(tk.calls, 1, 4) = <<"connect", "query", "embed", "query">>
                  /\ tk.matched # Undefined => tk.matched <= tk.topK * 2
                  /\ (tk.op = "find" /\ tk.result.status = "returned") =>
                        /\ Len(tk.result.sources) \in 1..tk.topK
                        /\ Len(tk.result.sources) <= tk.matched
                        /\ \A i \in DOMAIN tk.result.sources :
                              taggedWith(tk.result.sources[i].metadata, tk.doc)
                  /\ (tk.op = "ask" /\ tk.pc = "a_llm" /\ tk.findErr = <<>>) =>
                        /\ Len(tk.found) \in 1..tk.topK
                        /\ \A i \in DOMAIN tk.found :
                              taggedWith(tk.found[i].metadata, tk.doc)

\* C23 reached: a similarity query for one chunk returned two rows, and one
\* chunk of the requested document was returned
C23_TwoMatchedOneReturned ==
    \E t \in QueryTasks :
        /\ tasks[t].op = "find" /\ tasks[t].pc = "done"
        /\ tasks[t].result.status = "returned"
        /\ tasks[t].topK = 1 /\ tasks[t].limit = 2 /\ tasks[t].matched = 2
        /\ Len(tasks[t].result.sources) = 1

\* C23 reached: the question's embedding was all zeros and the request failed
\* without a similarity query
C23_ZeroEmbeddingFailed ==
    \E t \in QueryTasks :
        /\ tasks[t].op = "find" /\ tasks[t].pc = "done"
        /\ tasks[t].vec # NoVector /\ tasks[t].vec.zero
        /\ tasks[t].result.status = "raised"


\* the vector the provider delivered last from a backend's or the fallback's
\* array e_emb
resized == IF e_call = "embedQuery" THEN e_ret ELSE e_out[e_k - 1]

\* an array was resized and delivered, and is still the one in e_emb
resizedDelivered ==
    /\ Len(e_emb) >= 1
    /\ \/ e_call = "embedQuery" /\ e_pc = "done"
       \/ e_call = "embedDocuments" /\ e_pc \in {"loop", "returned"} /\ e_k > 1

\* C24: _resizeEmbedding returns a vector of exactly D elements for every
\* array of at least one element: the array itself when it has D elements (so
\* resizing what was resized changes nothing), the averages of its groups when
\* its length is a multiple of D, its first D elements when it is longer and
\* not a multiple, and its elements repeated in order up to D when shorter.
ResizeGivesDimension ==
    resizedDelivered =>
        LET n == Len(e_emb)
            g == n \div D
        IN  /\ Len(resized) = D
            /\ resizeEmbedding(resized, D) = resized
            /\ n = D => resized = e_emb
            /\ (n > D /\ n % D = 0) =>
                  \A i \in 1..D :
                     resized[i] * g = SumSeq([j \in 1..g |-> e_emb[(i - 1) * g + j]])
            /\ (n > D /\ n % D # 0) => \A i \in 1..D : resized[i] = e_emb[i]
            /\ n < D => \A i \in 1..D : resized[i] = e_emb[((i - 1) % n) + 1]

\* C24 reached: an array of twice the dimension, its groups of different
\* sums, was delivered as its averages
C24_AveragedGroups ==
    /\ resizedDelivered
    /\ Len(e_emb) = D + D
    /\ resized # SubSeq(e_emb, 1, D)
    /\ resized[1] # resized[2]


\* C25 as stated: whatever ingestions run, one after another or at once, the
\* vectorized flag of a document is written at most once.
FlagWrittenAtMostOnce == \A d \in DocIds : docs[d].writes <= 1

\* C25: no step resets the vectorized flag of a document; every write of the
\* flag sets it, and an ingestion that loaded the document before it was
\* vectorized writes it when it completes, so that ingestions of one document
\* running at once write it once each.
FlagOnlyEverSet ==
    [][\A d \in DocIds :
          /\ docs[d].vectorized => docs'[d].vectorized
          /\ docs'[d].writes # docs[d].writes =>
                /\ docs'[d].writes = docs[d].writes + 1
                /\ docs'[d].vectorized
                /\ \E t \in Tasks : /\ tasks[t].pc = "p_save" /\ tasks[t].doc = d
                                    /\ ~tasks[t].loaded
                                    /\ tasks'[t].result.status = "returned"]_vars

\* C25 reached: two ingestions of one document have completed and each wrote
\* the flag
C25_WrittenTwice ==
    \E d \in DocIds :
        /\ docs[d].vectorized /\ docs[d].writes = 2
        /\ \E t \in Tasks : /\ tasks[t].op = "process" /\ tasks[t].doc = d
                            /\ tasks[t].result.status = "returned"


\* C26: a client a request checked out of the pool is released on every path
\* of the request, a throwing query included: a request that has ended holds
\* none, and when no request is in flight no client is checked out.
ClientsAlwaysReleased ==
    /\ \A t \in Tasks : tasks[t].pc \in {"idle", "done", "responded"} => ~tasks[t].conn
    /\ (\A t \in Tasks : tasks[t].op = "idle") => CheckedOut = 0

\* C26 reached: the test query of an ingestion threw, the request has ended
\* and its client is still checked out
C26_TestQueryThrew ==
    /\ \A t \in Tasks : tasks[t].op = "idle"
    /\ env.leaked = 1
    /\ CheckedOut = 1


\* C27: a document whose vectorized flag is set has at least one row in the
\* table tagged with it: no ingestion sets the flag after inserting no chunk,
\* and no later schema synchronisation removes the rows of such a document.
VectorizedHasChunks ==
    \A d \in DocIds : docs[d].vectorized => Len(directLookup(rows, d)) >= 1

\* C27 reached: the ingestion of a document whose text gave no chunk has
\* returned and set the flag
C27_ReadyWithoutChunks ==
    \E t \in Tasks :
        /\ tasks[t].op = "process" /\ tasks[t].pc = "done"
        /\ tasks[t].result.status = "returned" /\ tasks[t].result.chunks = 0
        /\ docs[tasks[t].doc].vectorized
        /\ docs[tasks[t].doc].upload = "blank"

\* C27 reached: the synchronisation of a later ingestion recreated the table
\* and the rows of a vectorized document are gone
C27_SyncRemovedRows ==
    \E d \in DocIds :
        /\ docs[d].vectorized /\ docs[d].upload # "blank"
        /\ rows = <<>> /\ table = "ok"
        /\ \E t \in Tasks : tasks[t].op = "process" /\ tasks[t].pc = "p_embed"


\* C28: when the direct lookup of findRelevantChunks finds rows of the
\* document, the call returns a non-empty list whatever the question, a
\* question with a regular-expression metacharacter in a term included.
StoredChunksAlwaysRetrieved ==
    \A t \in QueryTasks :
        LET tk == tasks[t] IN
        (tk.tier1 # Undefined /\ tk.tier1 >= 1) =>
            /\ tk.findErr = <<>>
            /\ (tk.op = "find" /\ tk.pc = "done") =>
                  /\ tk.result.status = "returned"
                  /\ Len(tk.result.sources) >= 1

\* C28 reached: the lookup found rows of the document and findRelevantChunks
\* threw on a question with "(" in a term
C28_MetacharacterFailed ==
    \E t \in QueryTasks :
        /\ tasks[t].op = "find" /\ tasks[t].pc = "done"
        /\ tasks[t].q = "Q_paren"
        /\ tasks[t].tier1 # Undefined /\ tasks[t].tier1 >= 1
        /\ tasks[t].result.status = "raised"
        /\ tasks[t].result.msg = <<"Failed to find relevant chunks: ", "Invalid regular expression">>


\* where a request calls connect(): createEmbeddings 30, the connects of
\* syncDatabase, fromTexts 29, findRelevantChunks 146, askQuestion 41
AboutToConnect == {"p_conn", "p_sync", "p_acquire", "f_connect", "a_lr_connect"}

\* C29, requests: a request that is about to check a client out of the pool
\* holds none, so no request ever holds two (checked under Spec)
AcquiresHoldingNone ==
    \A t \in Tasks : tasks[t].pc \in AboutToConnect => ~tasks[t].conn

DeletedDocumentNotAnswered ==
    \A t \in QueryTasks :
        LET tk == tasks[t] IN
        (tk.op = "ask" /\ tk.deleted) =>
            /\ tk.found = <<>>
            /\ tk.pc = "responded" =>
                  /\ tk.result.sources = <<>>
                  /\ tk.result.answer = NotFoundAnswer

\* C30 reached: a question about a deleted document was answered with sources
\* from the rows of the document
C30_DeletedDocumentAnswered ==
    \E t \in QueryTasks :
        /\ tasks[t].op = "ask" /\ tasks[t].pc = "responded"
        /\ tasks[t].deleted /\ docs[tasks[t].doc].isDeleted
        /\ tasks[t].result.http = 200
        /\ Len(tasks[t].result.sources) >= 1
        /\ \A i \in DOMAIN tasks[t].result.sources :
              tasks[t].result.sources[i].metadata.documentId = tasks[t].doc

=============================================================================
